---- MODULE Spec2Model ----
(***************************************************************************)
(* A model of the Aura compiler's middle and back end: the type checker    *)
(* (src/src/typecheck/mod.rs), the code generator (src/src/codegen/mod.rs) *)
(* and the container writer (src/src/codegen/binary.rs), driven in the     *)
(* order compile_file (src/src/lib.rs) runs them.                          *)
(*                                                                         *)
(* Representation.  A byte is a number in 0..255; text, data and the       *)
(* written file are sequences of bytes.  An i64 of the source is an        *)
(* integer of the model (the programs of the model use values well inside  *)
(* 32 bits); a u64 of the source is its 8 little-endian bytes, so that     *)
(* `val as u64`, masks and to_le_bytes are computed on all 64 bits.        *)
(* AST nodes are records tagged like the variants of src/src/ast/mod.rs.   *)
(***************************************************************************)
EXTENDS Integers, Sequences, FiniteSets, TLC

VARIABLES program, pc, item, stmt, tc, cg, locals, file, error, cli, layout

vars == <<program, pc, item, stmt, tc, cg, locals, file, error, cli, layout>>

----------------------------------------------------------------------------
(* Bytes and fixed-width integers                                          *)

\* i64::to_le_bytes / u64::to_le_bytes / usize::to_le_bytes, n bytes, two's
\* complement (\div rounds down, % is non-negative).
RECURSIVE LeBytes(_, _)
LeBytes(v, n) == IF n = 0 THEN <<>> ELSE <<v % 256>> \o LeBytes(v \div 256, n - 1)

\* `val as u64` of an i64, and `x as u64` of a usize: the 8 bytes.
AsU64(v) == LeBytes(v, 8)

RECURSIVE BitAnd(_, _, _)
BitAnd(a, b, n) ==
    IF n = 0 THEN 0
    ELSE (IF a % 2 = 1 /\ b % 2 = 1 THEN 1 ELSE 0) + 2 * BitAnd(a \div 2, b \div 2, n - 1)

\* The & of two u64 values.
And64(a, b) == [i \in 1..8 |-> BitAnd(a[i], b[i], 8)]

Zeros(n) == [i \in 1..n |-> 0]

\* v <= 2^k - 1 and v >= -(2^k) for a model integer v: every model integer is
\* inside 32 bits, so for k >= 31 both hold.
LeqPow2Minus1(v, k) == IF k >= 31 THEN TRUE ELSE v <= 2^k - 1
GeqNegPow2(v, k) == IF k >= 31 THEN TRUE ELSE v >= -(2^k)

\* String::as_bytes for the names the model's programs use.
NameBytes(name) ==
    CASE name = "main" -> <<109, 97, 105, 110>>
      [] name = "f"    -> <<102>>
      [] name = "g"    -> <<103>>
      [] name = "x"    -> <<120>>
      [] name = "y"    -> <<121>>
      [] name = "c"    -> <<99>>
      [] name = "N"    -> <<78>>
      [] name = "v"    -> <<118>>
      [] name = "u"    -> <<117>>
      [] name = "p"    -> <<112>>
      [] name = "S"    -> <<83>>

----------------------------------------------------------------------------
(* The AST (src/src/ast/mod.rs)                                            *)

Ty(k) == [k |-> k]
BitInt(bits, signed) == [k |-> "BitInt", bits |-> bits, signed |-> signed]
PtrTy(t) == [k |-> "Ptr", inner |-> t]
MutPtr(t) == [k |-> "MutPtr", inner |-> t]
ConstPtr(t) == [k |-> "ConstPtr", inner |-> t]
ArrayTy(n, t) == [k |-> "Array", len |-> n, inner |-> t]
FuncTy(params, ret) == [k |-> "Func", params |-> params, ret |-> ret]
Named(n) == [k |-> "Named", name |-> n]

is_integer(t) ==
    t.k \in {"I8", "I16", "I32", "I64", "U8", "U16", "U32", "U64", "Usize", "Isize", "BitInt"}
is_float(t) == t.k \in {"F32", "F64"}
is_pointer(t) == t.k \in {"Ptr", "MutPtr", "ConstPtr"}

\* Option<T>
None == [some |-> FALSE]
Some(x) == [some |-> TRUE, v |-> x]

\* Literals and expressions
IntLit(v, s) == [e |-> "Literal", lit |-> [l |-> "Int", val |-> v, suffix |-> s]]
Str(bytes) == [e |-> "Literal", lit |-> [l |-> "String", bytes |-> bytes]]
BoolLit(b) == [e |-> "Literal", lit |-> [l |-> "Bool", b |-> b]]
CharLit(c) == [e |-> "Literal", lit |-> [l |-> "Char", c |-> c]]
FloatLit(s) == [e |-> "Literal", lit |-> [l |-> "Float", suffix |-> s]]
Ident(n) == [e |-> "Identifier", name |-> n]
Unary(op, x) == [e |-> "Unary", op |-> op, expr |-> x]
Binary(op, l, r) == [e |-> "Binary", op |-> op, l |-> l, r |-> r]
Call(f, args) == [e |-> "Call", f |-> f, args |-> args]
Syscall(name, args) == [e |-> "Syscall", name |-> name, args |-> args]
Index(a, i) == [e |-> "Index", arr |-> a, idx |-> i]
Field(x, f) == [e |-> "Field", expr |-> x, field |-> f]
PtrField(x, f) == [e |-> "PtrField", expr |-> x, field |-> f]
Cast(x, t) == [e |-> "Cast", expr |-> x, ty |-> t]
Sizeof(t) == [e |-> "Sizeof", ty |-> t]
Alignof(t) == [e |-> "Alignof", ty |-> t]
Offsetof(t, f) == [e |-> "Offsetof", ty |-> t, field |-> f]
Assign(l, r) == [e |-> "Assign", l |-> l, r |-> r]
AddrOf(x) == [e |-> "AddrOf", expr |-> x]
Deref(x) == [e |-> "Deref", expr |-> x]
BlockExpr(stmts, result) == [e |-> "Block", stmts |-> stmts, result |-> result]
IfExpr(c, t, f) == [e |-> "If", condition |-> c, then_expr |-> t, else_expr |-> f]
Alloc(t, count) == [e |-> "Alloc", ty |-> t, count |-> count]
Free(p, size) == [e |-> "Free", ptr |-> p, size |-> size]

\* Statements
Let(n, t, val) == [s |-> "Let", name |-> n, ty |-> t, value |-> val]
ConstStmt(n, t, val) == [s |-> "Const", name |-> n, ty |-> t, value |-> val]
ExprStmt(x) == [s |-> "Expr", expr |-> x]
Return(r) == [s |-> "Return", value |-> r]
Break == [s |-> "Break"]
Continue == [s |-> "Continue"]
Block(stmts) == [s |-> "Block", stmts |-> stmts]
If(c, t, f) == [s |-> "If", condition |-> c, then_branch |-> t, else_branch |-> f]
While(c, body) == [s |-> "While", condition |-> c, body |-> body]
For(init, c, update, body) ==
    [s |-> "For", init |-> init, condition |-> c, update |-> update, body |-> body]
Asm(inputs, outputs) == [s |-> "Asm", inputs |-> inputs, outputs |-> outputs]
Defer(st) == [s |-> "Defer", stmt |-> st]

\* Items
Param(n, t) == [name |-> n, ty |-> t]
Function(n, params, body, attrs) ==
    [i |-> "Function", name |-> n, params |-> params, body |-> body, attrs |-> attrs]
StructItem(n, fields) == [i |-> "Struct", name |-> n, fields |-> fields]
UnionItem(n) == [i |-> "Union", name |-> n]
EnumItem(n) == [i |-> "Enum", name |-> n]
ConstDecl(n, t, val) == [i |-> "Const", name |-> n, ty |-> t, value |-> val]
VarDecl(n, t, val) == [i |-> "Var", name |-> n, ty |-> t, value |-> val]

\* FunctionAttribute
Entry(n) == [a |-> "Entry", name |-> n]
Inline == [a |-> "Inline"]

----------------------------------------------------------------------------
(* Maps (std::collections::HashMap, only ever read and written by key)     *)

EmptyMap == [n \in {} |-> 0]
Insert(map, key, val) == [n \in DOMAIN map \cup {key} |-> IF n = key THEN val ELSE map[n]]

----------------------------------------------------------------------------
(* The type checker (src/src/typecheck/mod.rs)                             *)

\* Result<Type, TypeError> and Result<(), TypeError>, with the context as the
\* call leaves it.  A TypeError keeps its format string: the {} and {:?} stand
\* for the values the source formats in.
TOk(ctx, ty) == [ok |-> TRUE, ctx |-> ctx, ty |-> ty]
SOk(ctx) == [ok |-> TRUE, ctx |-> ctx]
TErr(msg, loc) == [ok |-> FALSE, kind |-> "TypeError", message |-> msg, location |-> loc]

\* TypeContext::new: one (global) scope, empty tables.  `inferred` is not a field
\* of the source: it records every type typecheck_expr has returned.
NewTypeContext ==
    [scopes |-> <<EmptyMap>>,
     struct_types |-> EmptyMap,
     union_types |-> EmptyMap,
     enum_types |-> EmptyMap,
     current_function |-> None,
     inferred |-> {}]

push_scope(ctx) == [ctx EXCEPT !.scopes = Append(@, EmptyMap)]
pop_scope(ctx) == [ctx EXCEPT !.scopes = SubSeq(@, 1, Len(@) - 1)]

add_variable(ctx, name, ty, is_const) ==
    IF Len(ctx.scopes) = 0 THEN ctx
    ELSE [ctx EXCEPT !.scopes[Len(ctx.scopes)] =
              Insert(@, name, [ty |-> ty, is_const |-> is_const])]

RECURSIVE LookupFrom(_, _, _)
LookupFrom(scopes, i, name) ==
    IF i = 0 THEN None
    ELSE IF name \in DOMAIN scopes[i] THEN Some(scopes[i][name])
    ELSE LookupFrom(scopes, i - 1, name)

lookup_variable(ctx, name) == LookupFrom(ctx.scopes, Len(ctx.scopes), name)

add_struct(ctx, s) == [ctx EXCEPT !.struct_types = Insert(@, s.name, s)]
add_union(ctx, u) == [ctx EXCEPT !.union_types = Insert(@, u.name, u)]
add_enum(ctx, e) == [ctx EXCEPT !.enum_types = Insert(@, e.name, e)]

lookup_struct(ctx, name) ==
    IF name \in DOMAIN ctx.struct_types THEN Some(ctx.struct_types[name]) ELSE None

\* The first field of the struct named `field`, as the loops of typecheck_field
\* and typecheck_ptr_field find it.
RECURSIVE FindField(_, _, _)
FindField(fields, i, field) ==
    IF i > Len(fields) THEN None
    ELSE IF fields[i].name = field THEN Some(fields[i].ty)
    ELSE FindField(fields, i + 1, field)

typecheck_literal(ctx, l) ==
    CASE l.l = "Int" ->
           TOk(ctx, CASE l.suffix = "I8" -> Ty("I8")
                      [] l.suffix = "I16" -> Ty("I16")
                      [] l.suffix = "I32" -> Ty("I32")
                      [] l.suffix = "I64" -> Ty("I64")
                      [] l.suffix = "U8" -> Ty("U8")
                      [] l.suffix = "U16" -> Ty("U16")
                      [] l.suffix = "U32" -> Ty("U32")
                      [] l.suffix = "U64" -> Ty("U64")
                      [] l.suffix = "Usize" -> Ty("Usize")
                      [] l.suffix = "Isize" -> Ty("Isize")
                      [] l.suffix = "None" -> Ty("I32"))
      [] l.l = "Float" ->
           TOk(ctx, CASE l.suffix = "F32" -> Ty("F32")
                      [] l.suffix = "F64" -> Ty("F64")
                      [] l.suffix = "None" -> Ty("F64"))
      [] l.l = "Bool" -> TOk(ctx, Ty("Bool"))
      [] l.l = "String" -> TOk(ctx, MutPtr(Ty("U8")))
      [] l.l = "Char" -> TOk(ctx, Ty("U8"))

RECURSIVE typecheck_expr(_, _)
RECURSIVE typecheck_stmt(_, _)
RECURSIVE typecheck_stmts(_, _, _)
RECURSIVE typecheck_exprs(_, _, _)
RECURSIVE typecheck_args(_, _, _, _)

\* The ? operator: an Err returns at once, an Ok value goes on to K.
Try(r, K(_)) == IF r.ok THEN K(r) ELSE r

typecheck_unary(ctx, op, e) ==
    Try(typecheck_expr(ctx, e), LAMBDA r :
        CASE op = "Neg" ->
               IF is_integer(r.ty) \/ is_float(r.ty) THEN r
               ELSE TErr("Cannot negate type {:?}", "neg")
          [] op = "Not" ->
               IF r.ty = Ty("Bool") THEN TOk(r.ctx, Ty("Bool"))
               ELSE TErr("Cannot logical NOT type {:?}", "not")
          [] op = "BitNot" ->
               IF is_integer(r.ty) THEN r
               ELSE TErr("Cannot bitwise NOT type {:?}", "bitnot")
          [] op = "Deref" ->
               IF r.ty.k \in {"MutPtr", "ConstPtr"} THEN TOk(r.ctx, r.ty.inner)
               ELSE TErr("Cannot dereference non-pointer type {:?}", "deref")
          [] op = "AddrOf" -> TOk(r.ctx, MutPtr(r.ty)))

typecheck_binary(ctx, op, l, r) ==
    Try(typecheck_expr(ctx, l), LAMBDA left :
    Try(typecheck_expr(left.ctx, r), LAMBDA right :
        CASE op \in {"Add", "Sub", "Mul", "Div", "Mod"} ->
               IF is_integer(left.ty) /\ is_integer(right.ty) THEN TOk(right.ctx, left.ty)
               ELSE IF is_float(left.ty) /\ is_float(right.ty) THEN TOk(right.ctx, left.ty)
               ELSE TErr("Invalid operand types for arithmetic: {:?} and {:?}", op)
          [] op \in {"LShift", "RShift"} ->
               IF is_integer(left.ty) /\ is_integer(right.ty) THEN TOk(right.ctx, left.ty)
               ELSE TErr("Invalid operand types for shift: {:?} and {:?}", op)
          [] op \in {"BitAnd", "BitOr", "BitXor"} ->
               IF is_integer(left.ty) /\ is_integer(right.ty) THEN TOk(right.ctx, left.ty)
               ELSE TErr("Invalid operand types for bitwise: {:?} and {:?}", op)
          [] op \in {"Eq", "Neq", "Lt", "Gt", "LtEq", "GtEq"} ->
               IF is_integer(left.ty) /\ is_integer(right.ty) THEN TOk(right.ctx, Ty("Bool"))
               ELSE IF is_float(left.ty) /\ is_float(right.ty) THEN TOk(right.ctx, Ty("Bool"))
               ELSE TErr("Invalid operand types for comparison: {:?} and {:?}", op)
          [] op \in {"LogicalAnd", "LogicalOr"} ->
               IF left.ty = Ty("Bool") /\ right.ty = Ty("Bool")
               THEN TOk(right.ctx, Ty("Bool"))
               ELSE TErr("Invalid operand types for logical: {:?} and {:?}", op)))

\* The loop of typecheck_call over args.iter().zip(params.iter()), from index i.
typecheck_args(ctx, args, params, i) ==
    IF i > Len(args) \/ i > Len(params) THEN SOk(ctx)
    ELSE Try(typecheck_expr(ctx, args[i]), LAMBDA a :
             IF a.ty # params[i]
             THEN TErr("Argument {} type mismatch: expected {:?}, got {:?}", "argument {}")
             ELSE typecheck_args(a.ctx, args, params, i + 1))

typecheck_call(ctx, f, args) ==
    Try(typecheck_expr(ctx, f), LAMBDA func_type :
        IF func_type.ty.k = "Func"
        THEN IF Len(func_type.ty.params) # Len(args)
             THEN TErr("Wrong number of arguments: expected {}, got {}", "function call")
             ELSE Try(typecheck_args(func_type.ctx, args, func_type.ty.params, 1),
                      LAMBDA a : TOk(a.ctx, func_type.ty.ret))
        ELSE TErr("Cannot call non-function type {:?}", "function call"))

typecheck_index(ctx, arr, idx) ==
    Try(typecheck_expr(ctx, arr), LAMBDA arr_type :
    Try(typecheck_expr(arr_type.ctx, idx), LAMBDA idx_type :
        CASE arr_type.ty.k = "Array" ->
               IF is_integer(idx_type.ty) THEN TOk(idx_type.ctx, arr_type.ty.inner)
               ELSE TErr("Array index must be integer, got {:?}", "array index")
          [] arr_type.ty.k \in {"MutPtr", "ConstPtr"} ->
               IF is_integer(idx_type.ty) THEN TOk(idx_type.ctx, arr_type.ty.inner)
               ELSE TErr("Pointer index must be integer, got {:?}", "pointer index")
          [] OTHER -> TErr("Cannot index non-array/non-pointer type {:?}", "array index")))

\* The result for the field once the struct and the field have been looked up.
FieldResult(ctx, s, f, loc) ==
    IF s.some
    THEN IF f.some THEN TOk(ctx, f.v) ELSE TErr("Struct {} has no field {}", loc)
    ELSE TErr("Unknown struct type {}", loc)

\* The struct lookup shared by typecheck_field (location ".{}") and
\* typecheck_ptr_field (location "->{}").
FieldOfNamed(ctx, name, field, loc) ==
    FieldResult(ctx, lookup_struct(ctx, name),
                IF name \in DOMAIN ctx.struct_types
                THEN FindField(ctx.struct_types[name].fields, 1, field) ELSE None,
                loc)

typecheck_field(ctx, e, field) ==
    Try(typecheck_expr(ctx, e), LAMBDA base_type :
        IF base_type.ty.k = "Named"
        THEN FieldOfNamed(base_type.ctx, base_type.ty.name, field, ".{}")
        ELSE TErr("Cannot access field on non-struct type {:?}", ".{}"))

typecheck_ptr_field(ctx, e, field) ==
    Try(typecheck_expr(ctx, e), LAMBDA ptr_type :
        IF ptr_type.ty.k \in {"MutPtr", "ConstPtr"}
        THEN IF ptr_type.ty.inner.k = "Named"
             THEN FieldOfNamed(ptr_type.ctx, ptr_type.ty.inner.name, field, "->{}")
             ELSE TErr("Cannot access field through non-struct pointer", "->{}")
        ELSE TErr("Cannot use -> on non-pointer type", "->{}"))

\* `if left_type == right_type { Ok(Type::Void) } else { Err(..) }`
SameTypes(ctx, left_ty, right_ty) ==
    IF left_ty = right_ty THEN TOk(ctx, Ty("Void"))
    ELSE TErr("Type mismatch in assignment: {:?} and {:?}", "assignment")

\* The Identifier arm of typecheck_assign, b the binding found.
AssignToBinding(ctx, b, left_ty, right_ty) ==
    IF b.some
    THEN IF b.v.is_const THEN SameTypes(ctx, left_ty, right_ty)
         ELSE TErr("Cannot assign to var binding '{}' (immutable value)", "assignment")
    ELSE TErr("Undefined variable: {}", "assignment")

typecheck_assign(ctx, l, r) ==
    Try(typecheck_expr(ctx, l), LAMBDA left_type :
    Try(typecheck_expr(left_type.ctx, r), LAMBDA right_type :
        CASE l.e = "Identifier" ->
               AssignToBinding(right_type.ctx, lookup_variable(right_type.ctx, l.name),
                               left_type.ty, right_type.ty)
          [] l.e \in {"Field", "PtrField"} ->
               SameTypes(right_type.ctx, left_type.ty, right_type.ty)
          [] l.e = "Index" -> SameTypes(right_type.ctx, left_type.ty, right_type.ty)
          [] l.e = "Deref" -> SameTypes(right_type.ctx, left_type.ty, right_type.ty)
          [] OTHER -> TErr("Invalid assignment target", "assignment")))

typecheck_if_expr(ctx, if_expr) ==
    Try(typecheck_expr(ctx, if_expr.condition), LAMBDA cond_type :
        IF cond_type.ty # Ty("Bool")
        THEN TErr("If condition must be bool, got {:?}", "if expression")
        ELSE
    Try(typecheck_expr(cond_type.ctx, if_expr.then_expr), LAMBDA then_type :
    Try(typecheck_expr(then_type.ctx, if_expr.else_expr), LAMBDA else_type :
        IF then_type.ty = else_type.ty THEN TOk(else_type.ctx, then_type.ty)
        ELSE TErr("If expression branches have different types: {:?} and {:?}",
                  "if expression"))))

\* `for arg in args { self.typecheck_expr(arg)?; }` of the Syscall arm, from index i.
typecheck_exprs(ctx, exprs, i) ==
    IF i > Len(exprs) THEN SOk(ctx)
    ELSE Try(typecheck_expr(ctx, exprs[i]), LAMBDA r : typecheck_exprs(r.ctx, exprs, i + 1))

\* A checker that recovers from an undefined name by giving it the Error type.
IdentifierType_recovering(ctx, b, name) ==
    IF b.some THEN TOk(ctx, b.v.ty) ELSE TOk(ctx, Ty("Error"))

\* The Identifier arm of typecheck_expr, b the binding found.
IdentifierType(ctx, b, name) ==
    IF b.some THEN TOk(ctx, b.v.ty) ELSE TErr("Undefined variable: {}", name)

\* The match of typecheck_expr.
TypecheckExprMatch(ctx, expr) ==
    CASE expr.e = "Literal" -> typecheck_literal(ctx, expr.lit)
      [] expr.e = "Identifier" ->
           IdentifierType(ctx, lookup_variable(ctx, expr.name), expr.name)
      [] expr.e = "Unary" -> typecheck_unary(ctx, expr.op, expr.expr)
      [] expr.e = "Binary" -> typecheck_binary(ctx, expr.op, expr.l, expr.r)
      [] expr.e = "Call" -> typecheck_call(ctx, expr.f, expr.args)
      [] expr.e = "Index" -> typecheck_index(ctx, expr.arr, expr.idx)
      [] expr.e = "Field" -> typecheck_field(ctx, expr.expr, expr.field)
      [] expr.e = "PtrField" -> typecheck_ptr_field(ctx, expr.expr, expr.field)
      [] expr.e = "Cast" ->
           Try(typecheck_expr(ctx, expr.expr), LAMBDA r : TOk(r.ctx, expr.ty))
      [] expr.e \in {"Sizeof", "Alignof", "Offsetof"} -> TOk(ctx, Ty("Usize"))
      [] expr.e = "Assign" -> typecheck_assign(ctx, expr.l, expr.r)
      [] expr.e = "AddrOf" ->
           Try(typecheck_expr(ctx, expr.expr), LAMBDA inner : TOk(inner.ctx, MutPtr(inner.ty)))
      [] expr.e = "Deref" ->
           Try(typecheck_expr(ctx, expr.expr), LAMBDA ptr_type :
               IF ptr_type.ty.k \in {"MutPtr", "ConstPtr"}
               THEN TOk(ptr_type.ctx, ptr_type.ty.inner)
               ELSE TErr("Cannot dereference non-pointer type {:?}", "deref"))
      [] expr.e = "Block" ->
           Try(typecheck_stmts(ctx, expr.stmts, 1), LAMBDA s :
               IF expr.result.some THEN typecheck_expr(s.ctx, expr.result.v)
               ELSE TOk(s.ctx, Ty("Void")))
      [] expr.e = "Alloc" ->
           Try(typecheck_expr(ctx, expr.count), LAMBDA r : TOk(r.ctx, MutPtr(expr.ty)))
      [] expr.e = "Free" ->
           \* the arm binds and checks the pointer operand only
           Try(typecheck_expr(ctx, expr.ptr), LAMBDA r : TOk(r.ctx, Ty("Void")))
      [] expr.e = "If" -> typecheck_if_expr(ctx, expr)
      [] expr.e = "Syscall" ->
           Try(typecheck_exprs(ctx, expr.args, 1), LAMBDA r : TOk(r.ctx, Ty("Isize")))

\* typecheck_expr; each type it returns is also recorded in `inferred`.
typecheck_expr(ctx, expr) ==
    Try(TypecheckExprMatch(ctx, expr), LAMBDA r : [r EXCEPT !.ctx.inferred = @ \cup {r.ty}])

\* The declared type, when present, must equal the inferred type.
typecheck_let_stmt(ctx, l) ==
    Try(typecheck_expr(ctx, l.value), LAMBDA value_type :
        IF l.ty.some /\ l.ty.v # value_type.ty
        THEN TErr("Type mismatch in let: expected {:?}, got {:?}", "let {}")
        ELSE SOk(add_variable(value_type.ctx, l.name, value_type.ty, FALSE)))

typecheck_const_stmt(ctx, c) ==
    Try(typecheck_expr(ctx, c.value), LAMBDA value_type :
        IF c.ty.some /\ c.ty.v # value_type.ty
        THEN TErr("Type mismatch in const: expected {:?}, got {:?}", "const {}")
        ELSE SOk(add_variable(value_type.ctx, c.name, value_type.ty, TRUE)))

typecheck_if_stmt(ctx, if_stmt) ==
    Try(typecheck_expr(ctx, if_stmt.condition), LAMBDA cond_type :
        IF cond_type.ty # Ty("Bool")
        THEN TErr("If condition must be bool, got {:?}", "if condition")
        ELSE Try(typecheck_stmts(cond_type.ctx, if_stmt.then_branch, 1), LAMBDA t :
                 IF if_stmt.else_branch.some
                 THEN typecheck_stmts(t.ctx, if_stmt.else_branch.v, 1)
                 ELSE SOk(t.ctx)))

typecheck_while_stmt(ctx, w) ==
    Try(typecheck_expr(ctx, w.condition), LAMBDA cond_type :
        IF cond_type.ty # Ty("Bool")
        THEN TErr("While condition must be bool, got {:?}", "while condition")
        ELSE typecheck_stmts(cond_type.ctx, w.body, 1))

\* A typecheck_for_stmt that checks the update statement before it tests the
\* type of the condition.
typecheck_for_stmt_update_first(ctx, f) ==
    Try(typecheck_stmt(ctx, f.init), LAMBDA init :
    Try(typecheck_expr(init.ctx, f.condition), LAMBDA cond_type :
    Try(typecheck_stmt(cond_type.ctx, f.update), LAMBDA update :
        IF cond_type.ty # Ty("Bool")
        THEN TErr("For condition must be bool, got {:?}", "for condition")
        ELSE typecheck_stmts(update.ctx, f.body, 1))))

typecheck_for_stmt(ctx, f) ==
    Try(typecheck_stmt(ctx, f.init), LAMBDA init :
    Try(typecheck_expr(init.ctx, f.condition), LAMBDA cond_type :
        IF cond_type.ty # Ty("Bool")
        THEN TErr("For condition must be bool, got {:?}", "for condition")
        ELSE Try(typecheck_stmt(cond_type.ctx, f.update), LAMBDA update :
                 typecheck_stmts(update.ctx, f.body, 1))))

typecheck_stmt(ctx, st) ==
    CASE st.s = "Let" -> typecheck_let_stmt(ctx, st)
      [] st.s = "Const" -> typecheck_const_stmt(ctx, st)
      [] st.s = "Expr" -> Try(typecheck_expr(ctx, st.expr), LAMBDA r : SOk(r.ctx))
      [] st.s = "Return" ->
           IF st.value.some
           THEN Try(typecheck_expr(ctx, st.value.v), LAMBDA r : SOk(r.ctx))
           ELSE SOk(ctx)
      [] st.s = "Break" -> SOk(ctx)
      [] st.s = "Continue" -> SOk(ctx)
      [] st.s = "Block" -> typecheck_stmts(ctx, st.stmts, 1)
      [] st.s = "If" -> typecheck_if_stmt(ctx, st)
      [] st.s = "While" -> typecheck_while_stmt(ctx, st)
      [] st.s = "For" -> typecheck_for_stmt(ctx, st)
      [] st.s = "Asm" -> SOk(ctx)
      [] st.s = "Defer" -> typecheck_stmt(ctx, st.stmt)

\* `for s in stmts { self.typecheck_stmt(s)?; }`, from index i.
typecheck_stmts(ctx, stmts, i) ==
    IF i > Len(stmts) THEN SOk(ctx)
    ELSE Try(typecheck_stmt(ctx, stmts[i]), LAMBDA r : typecheck_stmts(r.ctx, stmts, i + 1))

\* A typecheck_const_decl that binds the name of the constant, as
\* typecheck_const_stmt does.
typecheck_const_decl_binding(ctx, c) ==
    Try(typecheck_expr(ctx, c.value), LAMBDA value_type :
        IF c.ty.some /\ c.ty.v # value_type.ty
        THEN TErr("Type mismatch in const: expected {:?}, got {:?}", "const {}")
        ELSE SOk(add_variable(value_type.ctx, c.name, value_type.ty, TRUE)))

\* typecheck_const_decl and typecheck_var_decl (top level): nothing is bound.
typecheck_const_decl(ctx, c) ==
    Try(typecheck_expr(ctx, c.value), LAMBDA value_type :
        IF c.ty.some /\ c.ty.v # value_type.ty
        THEN TErr("Type mismatch in const: expected {:?}, got {:?}", "const {}")
        ELSE SOk(value_type.ctx))

typecheck_var_decl(ctx, v) ==
    Try(typecheck_expr(ctx, v.value), LAMBDA value_type :
        IF v.ty.some /\ v.ty.v # value_type.ty
        THEN TErr("Type mismatch in var: expected {:?}, got {:?}", "var {}")
        ELSE SOk(value_type.ctx))

\* typecheck_item on an item that is not a function.
typecheck_item(ctx, it) ==
    CASE it.i = "Struct" -> SOk(add_struct(ctx, it))
      [] it.i = "Union" -> SOk(add_union(ctx, it))
      [] it.i = "Enum" -> SOk(add_enum(ctx, it))
      [] it.i = "Const" -> typecheck_const_decl(ctx, it)
      [] it.i = "Var" -> typecheck_var_decl(ctx, it)

\* The head of typecheck_function: remember the function, push its scope, bind
\* its parameters as constants.
RECURSIVE AddParams(_, _, _)
AddParams(ctx, params, i) ==
    IF i > Len(params) THEN ctx
    ELSE AddParams(add_variable(ctx, params[i].name, params[i].ty, TRUE), params, i + 1)

typecheck_function_enter(ctx, f) ==
    AddParams(push_scope([ctx EXCEPT !.current_function = Some(f.name)]), f.params, 1)

\* The tail of typecheck_function: pop the scope, restore current_function.
typecheck_function_leave(ctx, prev_fn) ==
    [pop_scope(ctx) EXCEPT !.current_function = prev_fn]

----------------------------------------------------------------------------
(* The code generator (src/src/codegen/mod.rs)                             *)

\* Result<_, CodegenError>, with the generator as the call leaves it; `val` is
\* the u64 generate_expr returns.
GOk(g) == [ok |-> TRUE, cg |-> g]
GVal(g, val) == [ok |-> TRUE, cg |-> g, val |-> val]
GErr(msg) == [ok |-> FALSE, kind |-> "CodegenError", message |-> msg]

\* IntType::from_suffix
from_suffix(suffix) ==
    CASE suffix = "I8" -> Some([bits |-> 8, signed |-> TRUE])
      [] suffix = "I16" -> Some([bits |-> 16, signed |-> TRUE])
      [] suffix = "I32" -> Some([bits |-> 32, signed |-> TRUE])
      [] suffix = "I64" -> Some([bits |-> 64, signed |-> TRUE])
      [] suffix = "U8" -> Some([bits |-> 8, signed |-> FALSE])
      [] suffix = "U16" -> Some([bits |-> 16, signed |-> FALSE])
      [] suffix = "U32" -> Some([bits |-> 32, signed |-> FALSE])
      [] suffix = "U64" -> Some([bits |-> 64, signed |-> FALSE])
      [] suffix \in {"Usize", "Isize"} -> Some([bits |-> 64, signed |-> FALSE])
      [] suffix = "None" -> None

\* IntType::mask: (1u64 << bits) - 1, or all ones from 64 bits on, as 8 bytes.
mask(int_type) ==
    IF int_type.bits >= 64 THEN [i \in 1..8 |-> 255]
    ELSE [i \in 1..8 |->
            LET r == int_type.bits - 8 * (i - 1) IN
            IF r >= 8 THEN 255 ELSE IF r <= 0 THEN 0 ELSE 2^r - 1]

\* IntType::fits
fits(int_type, val) ==
    IF int_type.bits >= 64 THEN TRUE
    ELSE IF int_type.signed
         THEN GeqNegPow2(val, int_type.bits - 1) /\ LeqPow2Minus1(val, int_type.bits - 1)
         ELSE val >= 0 /\ LeqPow2Minus1(val, int_type.bits)

\* CodeGenerator::new
NewCodeGenerator ==
    [text |-> <<>>,
     data |-> <<>>,
     bss_size |-> 0,
     relocations |-> <<>>,
     symbols |-> <<>>,
     entry_point |-> 0,
     current_offset |-> 0,
     label_positions |-> EmptyMap,
     entry_point_name |-> None,
     variables |-> EmptyMap]

Symbol(name, offset, size, kind) ==
    [name |-> name, offset |-> offset, size |-> size, kind |-> kind]

Emit(g, bytes) == [g EXCEPT !.text = @ \o bytes]

mov_rax_immediate(g, val) == Emit(g, <<72, 184>> \o val)
mov_rax_from_mem(g, addr) == Emit(mov_rax_immediate(g, addr), <<72, 139, 0>>)
xor_rax_rax(g) == Emit(g, <<72, 49, 192>>)
ret(g) == Emit(g, <<195>>)
mov_rdi_immediate(g, val) == Emit(g, <<72, 191>> \o val)
mov_rsi_immediate(g, val) == Emit(g, <<72, 190>> \o val)
mov_rdx_immediate(g, val) == Emit(g, <<72, 186>> \o val)
mov_r10_immediate(g, val) == Emit(g, <<73, 186>> \o val)
mov_rax_to_r10_mem(g) == Emit(g, <<73, 137, 2>>)
mov_rax_from_r10(g) == Emit(g, <<73, 139, 194>>)
mov_rdi_rax(g) == Emit(g, <<72, 137, 248>>)
syscall(g) == Emit(g, <<15, 5>>)

\* 0x1000000 + offset, as u64
DataBase == 16777216
get_data_address(offset) == AsU64(DataBase + offset)

emit_width_immediate(g, val, bits) ==
    CASE bits >= 1 /\ bits <= 8 -> Emit(g, <<176, val[1]>>)
      [] bits >= 9 /\ bits <= 16 -> Emit(g, <<102, 184>> \o SubSeq(val, 1, 2))
      [] bits >= 17 /\ bits <= 32 -> Emit(g, <<184>> \o SubSeq(val, 1, 4))
      [] OTHER -> Emit(g, <<72, 184>> \o val)

\* A call_external without the arm of the free intrinsic: __aura_free is
\* called through a relocation.
call_external_free_relocated(g, symbol) ==
    CASE symbol = "__aura_alloc" -> Emit(g, <<65, 255, 214>>)
      [] OTHER ->
           LET g1 == Emit(g, <<255, 21>>)
               g2 == [g1 EXCEPT !.relocations =
                         Append(@, [offset |-> Len(g1.text), symbol |-> symbol,
                                    kind |-> "Relative32"])]
           IN Emit(g2, Zeros(4))

call_external(g, symbol) ==
    CASE symbol = "__aura_alloc" -> Emit(g, <<65, 255, 214>>)
      [] symbol = "__aura_free" -> Emit(g, <<65, 255, 215>>)
      [] OTHER ->
           LET g1 == Emit(g, <<255, 21>>)
               g2 == [g1 EXCEPT !.relocations =
                         Append(@, [offset |-> Len(g1.text), symbol |-> symbol,
                                    kind |-> "Relative32"])]
           IN Emit(g2, Zeros(4))

mask_rax(g, bits) ==
    IF bits < 64
    THEN LET m == IF bits >= 63 THEN [i \in 1..8 |-> 255]
                  ELSE mask([bits |-> bits, signed |-> FALSE])
         IN Emit(g, <<72, 37>> \o m)
    ELSE g

generate_cast_conversion(g, target_type) ==
    CASE target_type.k = "I8" -> GOk(Emit(g, <<15, 190, 192>>))
      [] target_type.k = "U8" -> GOk(Emit(g, <<15, 182, 192>>))
      [] target_type.k = "I16" -> GOk(Emit(g, <<15, 191, 192>>))
      [] target_type.k = "U16" -> GOk(Emit(g, <<15, 183, 192>>))
      [] target_type.k \in {"I32", "U32"} -> GOk(g)
      [] target_type.k \in {"I64", "U64"} -> GOk(g)
      [] target_type.k = "BitInt" -> GOk(mask_rax(g, target_type.bits))
      [] OTHER -> GOk(g)

\* symbols.iter().find(|s| s.name == *name && s.kind == SymbolKind::Data)
RECURSIVE FindDataSymbol(_, _, _)
FindDataSymbol(symbols, i, name) ==
    IF i > Len(symbols) THEN None
    ELSE IF symbols[i].name = name /\ symbols[i].kind = "Data" THEN Some(symbols[i])
    ELSE FindDataSymbol(symbols, i + 1, name)

\* The five instructions both arms of generate_write_syscall emit.
EmitWrite(g, fd, data_addr, len) ==
    syscall(mov_rax_immediate(
        mov_rdx_immediate(
            mov_rsi_immediate(mov_rdi_immediate(g, fd), data_addr), len), AsU64(1)))

\* The Identifier arm of generate_write_syscall, sym the data symbol found.
WriteSymbol(g, fd, sym) ==
    IF sym.some
    THEN GOk(EmitWrite(g, fd, get_data_address(sym.v.offset), AsU64(sym.v.size)))
    ELSE GErr("Unknown identifier: {}")

\* A write that stores its payload NUL-terminated, as a string const is stored.
WritePayload_terminated(g, fd, a) ==
    CASE a.e = "Literal" /\ a.lit.l = "String" ->
           GOk(EmitWrite([g EXCEPT !.data = (@ \o a.lit.bytes) \o <<0>>], fd,
                         get_data_address(Len(g.data)), AsU64(Len(a.lit.bytes))))
      [] a.e = "Identifier" -> WriteSymbol(g, fd, FindDataSymbol(g.symbols, 1, a.name))
      [] OTHER -> GErr("write syscall argument must be a string literal or identifier")

\* generate_write_syscall once fd and the payload argument a are chosen.
WritePayload(g, fd, a) ==
    CASE a.e = "Literal" /\ a.lit.l = "String" ->
           GOk(EmitWrite([g EXCEPT !.data = @ \o a.lit.bytes], fd,
                         get_data_address(Len(g.data)), AsU64(Len(a.lit.bytes))))
      [] a.e = "Identifier" -> WriteSymbol(g, fd, FindDataSymbol(g.symbols, 1, a.name))
      [] OTHER -> GErr("write syscall argument must be a string literal or identifier")

generate_write_syscall(g, args) ==
    IF Len(args) = 0 THEN GErr("write syscall requires at least one argument")
    ELSE WritePayload(g,
                      IF Len(args) > 1
                      THEN IF args[1].e = "Literal" /\ args[1].lit.l = "Int"
                           THEN AsU64(args[1].lit.val) ELSE AsU64(1)
                      ELSE AsU64(1),
                      args[IF Len(args) > 1 THEN 2 ELSE 1])

generate_syscall(g, method_name, args) ==
    IF method_name = "write" THEN generate_write_syscall(g, args)
    ELSE GErr("Unknown syscall method: {}")

\* The Int arm of generate_expr once the suffix names a type.
GenerateSuffixedInt(g, val, int_type) ==
    IF ~fits(int_type, val)
    THEN GErr("Integer literal {} does not fit in type")
    ELSE GVal(emit_width_immediate(g, And64(AsU64(val), mask(int_type)), int_type.bits),
              And64(AsU64(val), mask(int_type)))

\* The Identifier arm of generate_expr, sym the data symbol found.
GenerateIdentifier(g, sym, name) ==
    IF sym.some THEN GVal(mov_rax_from_mem(g, AsU64(sym.v.offset)), AsU64(0))
    ELSE IF name \in DOMAIN g.variables
         THEN GVal(mov_rax_from_r10(
                       mov_r10_immediate(g, get_data_address(g.variables[name]))),
                   AsU64(0))
         ELSE GVal(g, AsU64(0))

RECURSIVE generate_expr(_, _)
generate_expr(g, expr) ==
    CASE expr.e = "Literal" /\ expr.lit.l = "Int" ->
           IF from_suffix(expr.lit.suffix).some
           THEN GenerateSuffixedInt(g, expr.lit.val, from_suffix(expr.lit.suffix).v)
           ELSE GVal(g, AsU64(expr.lit.val))
      [] expr.e = "Identifier" ->
           GenerateIdentifier(g, FindDataSymbol(g.symbols, 1, expr.name), expr.name)
      [] expr.e = "Syscall" ->
           Try(generate_syscall(g, expr.name, expr.args), LAMBDA r : GVal(r.cg, AsU64(0)))
      [] expr.e = "Alloc" ->
           Try(generate_expr(g, expr.count), LAMBDA size :
               GVal(call_external(mov_rdi_immediate(size.cg, size.val), "__aura_alloc"),
                    AsU64(0)))
      [] expr.e = "Free" ->
           Try(generate_expr(g, expr.ptr), LAMBDA p :
           Try(generate_expr(mov_rdi_rax(p.cg), expr.size), LAMBDA size_val :
               GVal(call_external(mov_rsi_immediate(size_val.cg, size_val.val),
                                  "__aura_free"),
                    AsU64(0))))
      [] expr.e = "Cast" ->
           Try(generate_expr(g, expr.expr), LAMBDA r :
           Try(generate_cast_conversion(r.cg, expr.ty), LAMBDA c : GVal(c.cg, AsU64(0))))
      [] OTHER -> GVal(g, AsU64(0))

\* The Identifier arm of generate_return, sym the data symbol found.
ReturnIdentifier(g, sym) ==
    IF sym.some THEN GOk(mov_rax_from_mem(g, AsU64(sym.v.offset)))
    ELSE GOk(xor_rax_rax(g))

\* A generate_return without the integer-literal arm: a literal is zeroed.
generate_return_zeroing(g, expr) ==
    CASE expr.e = "Identifier" ->
           ReturnIdentifier(g, FindDataSymbol(g.symbols, 1, expr.name))
      [] OTHER -> GOk(xor_rax_rax(g))

generate_return(g, expr) ==
    CASE expr.e = "Literal" /\ expr.lit.l = "Int" ->
           GOk(mov_rax_immediate(g, AsU64(expr.lit.val)))
      [] expr.e = "Identifier" ->
           ReturnIdentifier(g, FindDataSymbol(g.symbols, 1, expr.name))
      [] OTHER -> GOk(xor_rax_rax(g))

\* The shared body of generate_const_item and generate_const_stmt: the two
\* functions of the source are the same code on a ConstDecl and a ConstStmt.
GenerateConst(g, c) ==
    CASE c.value.e = "Literal" /\ c.value.lit.l = "Int" ->
           LET offset == Len(g.data) IN
           GOk([g EXCEPT !.data = @ \o LeBytes(c.value.lit.val, 8),
                         !.symbols = Append(@, Symbol(c.name, offset, 8, "Data"))])
      [] c.value.e = "Literal" /\ c.value.lit.l = "String" ->
           LET offset == Len(g.data) IN
           GOk([g EXCEPT !.data = (@ \o c.value.lit.bytes) \o <<0>>,
                         !.symbols = Append(@, Symbol(c.name, offset,
                                                      Len(c.value.lit.bytes), "Data"))])
      [] OTHER -> GOk(g)

generate_const_item(g, c) == GenerateConst(g, c)
generate_const_stmt(g, c) == GenerateConst(g, c)

generate_var_item(g, v) == GOk([g EXCEPT !.bss_size = @ + 8])

\* A StoreNewSlot that takes the offset after it has reserved the slot.
StoreNewSlot_after(g, name) ==
    LET g1 == [g EXCEPT !.data = @ \o Zeros(8)]
        offset == Len(g1.data)
        g2 == mov_rax_to_r10_mem(mov_r10_immediate(g1, get_data_address(offset)))
    IN [g2 EXCEPT !.variables = Insert(@, name, offset)]

\* Reserve 8 zero bytes in data, store RAX there through R10, bind the name.
StoreNewSlot(g, name) ==
    LET offset == Len(g.data)
        g1 == [g EXCEPT !.data = @ \o Zeros(8)]
        g2 == mov_rax_to_r10_mem(mov_r10_immediate(g1, get_data_address(offset)))
    IN [g2 EXCEPT !.variables = Insert(@, name, offset)]

generate_let(g, l) ==
    CASE l.value.e = "Literal" /\ l.value.lit.l = "Int" ->
           LET offset == Len(g.data) IN
           GOk([g EXCEPT !.data = @ \o LeBytes(l.value.lit.val, 8),
                         !.variables = Insert(@, l.name, offset)])
      [] l.value.e = "Identifier" ->
           IF l.value.name \in DOMAIN g.variables
           THEN GOk(StoreNewSlot(
                        mov_rax_from_r10(
                            mov_r10_immediate(g, get_data_address(g.variables[l.value.name]))),
                        l.name))
           ELSE GErr("Undefined variable: {}")
      [] OTHER ->
           Try(generate_expr(g, l.value), LAMBDA r : GOk(StoreNewSlot(r.cg, l.name)))

RECURSIVE generate_stmt(_, _)
RECURSIVE generate_stmts(_, _, _)

\* A generate_stmt that emits the branches of an if and the body of a while.
generate_stmt_descending(g, st) ==
    CASE st.s = "Return" /\ st.value.some ->
           Try(generate_return(g, st.value.v), LAMBDA r : GOk(ret(r.cg)))
      [] st.s = "Return" /\ ~st.value.some -> GOk(ret(xor_rax_rax(g)))
      [] st.s = "Const" -> generate_const_stmt(g, st)
      [] st.s = "Let" -> generate_let(g, st)
      [] st.s = "Expr" ->
           Try(generate_expr(g, st.expr), LAMBDA r : GOk(r.cg))
      [] st.s = "Block" -> generate_stmts(g, st.stmts, 1)
      [] st.s = "If" ->
           Try(generate_stmts(g, st.then_branch, 1), LAMBDA t :
               IF st.else_branch.some THEN generate_stmts(t.cg, st.else_branch.v, 1)
               ELSE GOk(t.cg))
      [] st.s = "While" -> generate_stmts(g, st.body, 1)
      [] OTHER -> GOk(g)

generate_stmt(g, st) ==
    CASE st.s = "Return" /\ st.value.some ->
           Try(generate_return(g, st.value.v), LAMBDA r : GOk(ret(r.cg)))
      [] st.s = "Return" /\ ~st.value.some -> GOk(ret(xor_rax_rax(g)))
      [] st.s = "Const" -> generate_const_stmt(g, st)
      [] st.s = "Let" -> generate_let(g, st)
      [] st.s = "Expr" ->
           Try(generate_expr(g, st.expr), LAMBDA r : GOk(r.cg))
      [] st.s = "Block" -> generate_stmts(g, st.stmts, 1)
      [] OTHER -> GOk(g)

\* `for s in stmts { self.generate_stmt(s)?; }`, from index i.
generate_stmts(g, stmts, i) ==
    IF i > Len(stmts) THEN GOk(g)
    ELSE Try(generate_stmt(g, stmts[i]), LAMBDA r : generate_stmts(r.cg, stmts, i + 1))

\* A generate_function that puts its symbol at the head of the table.
generate_function_enter_front(g, f) ==
    LET func_start == Len(g.text)
        g1 == [g EXCEPT !.symbols = <<Symbol(f.name, func_start, 0, "Function")>> \o @]
    IN IF g1.entry_point_name.some /\ f.name = g1.entry_point_name.v
       THEN [g1 EXCEPT !.entry_point = func_start]
       ELSE g1

\* The head of generate_function: push the symbol with size 0, record the entry
\* point when this is the entry function.
generate_function_enter(g, f) ==
    LET func_start == Len(g.text)
        g1 == [g EXCEPT !.symbols = Append(@, Symbol(f.name, func_start, 0, "Function"))]
    IN IF g1.entry_point_name.some /\ f.name = g1.entry_point_name.v
       THEN [g1 EXCEPT !.entry_point = func_start]
       ELSE g1

\* symbols.iter_mut().enumerate().find(|(_, s)| s.name == f.name): the index of
\* the first symbol with the function's name, of any kind.
RECURSIVE FindSymbolIndex(_, _, _)
FindSymbolIndex(symbols, i, name) ==
    IF i > Len(symbols) THEN 0
    ELSE IF symbols[i].name = name THEN i
    ELSE FindSymbolIndex(symbols, i + 1, name)

\* The tail of generate_function: fill in the size.
generate_function_leave(g, f, func_start) ==
    LET idx == FindSymbolIndex(g.symbols, 1, f.name) IN
    IF idx # 0 THEN [g EXCEPT !.symbols[idx].size = Len(g.text) - func_start] ELSE g

\* The first two loops of generate: the last Entry attribute in item order names
\* the entry point; a function of that name must exist.
RECURSIVE ScanAttrs(_, _, _, _)
ScanAttrs(name, f, attrs, i) ==
    IF i > Len(attrs) THEN name
    ELSE ScanAttrs(IF attrs[i].a = "Entry"
                   THEN IF attrs[i].name.some THEN Some(attrs[i].name.v) ELSE Some(f.name)
                   ELSE name,
                   f, attrs, i + 1)

RECURSIVE ScanEntry(_, _, _)
ScanEntry(name, items, i) ==
    IF i > Len(items) THEN name
    ELSE ScanEntry(IF items[i].i = "Function"
                   THEN ScanAttrs(name, items[i], items[i].attrs, 1)
                   ELSE name,
                   items, i + 1)

\* An existence check that is satisfied by an item of any kind.
function_exists_any_item(items, entry_name) ==
    \E i \in 1..Len(items) : items[i].name = entry_name

function_exists(items, entry_name) ==
    \E i \in 1..Len(items) : items[i].i = "Function" /\ items[i].name = entry_name

generate_begin(items) ==
    LET g == [NewCodeGenerator EXCEPT !.entry_point_name = ScanEntry(None, items, 1)] IN
    IF g.entry_point_name.some /\ ~function_exists(items, g.entry_point_name.v)
    THEN GErr("Entry point function '{}' does not exist")
    ELSE GOk(g)

\* generate_item for the items that are not functions.
generate_item(g, it) ==
    CASE it.i = "Const" -> generate_const_item(g, it)
      [] it.i = "Var" -> generate_var_item(g, it)
      [] OTHER -> GOk(g)

\* The AuraObject generate returns.
AuraObject(g) ==
    [entry_point |-> g.entry_point,
     text |-> g.text,
     data |-> g.data,
     bss_size |-> g.bss_size,
     relocations |-> g.relocations,
     symbols |-> g.symbols]

----------------------------------------------------------------------------
(* The container writer (src/src/codegen/binary.rs)                        *)

\* An align_to that always moves to the next boundary.
align_to_next(size, align) ==
    IF align = 0 THEN size ELSE (size \div align + 1) * align

align_to(size, align) ==
    IF align = 0 THEN size ELSE ((size + align - 1) \div align) * align

\* std::mem::size_of::<AuraBinaryHeader>(): #[repr(C)], magic [u8; 4], version u8,
\* flags u8, reserved u16, then nine u64 fields; no padding is needed.
SizeOfAuraBinaryHeader == 4 + 1 + 1 + 2 + 9 * 8

AuraBinaryHeader(object) ==
    [magic |-> <<65, 85, 82, 65>>,
     version |-> 1,
     flags |-> 0,
     reserved |-> 0,
     entry_point |-> object.entry_point,
     stack_size |-> 4096,
     text_offset |-> SizeOfAuraBinaryHeader,
     text_size |-> Len(object.text),
     data_offset |-> SizeOfAuraBinaryHeader + align_to(Len(object.text), 16),
     data_size |-> Len(object.data),
     bss_size |-> object.bss_size,
     reloc_count |-> Len(object.relocations),
     symbol_count |-> Len(object.symbols)]

\* A header serialisation that leaves out the reserved u16.
header_as_bytes_unreserved(h) ==
    h.magic \o <<h.version>> \o <<h.flags>>
      \o LeBytes(h.entry_point, 8) \o LeBytes(h.stack_size, 8)
      \o LeBytes(h.text_offset, 8) \o LeBytes(h.text_size, 8)
      \o LeBytes(h.data_offset, 8) \o LeBytes(h.data_size, 8)
      \o LeBytes(h.bss_size, 8) \o LeBytes(h.reloc_count, 8)
      \o LeBytes(h.symbol_count, 8)

header_as_bytes(h) ==
    h.magic \o <<h.version>> \o <<h.flags>> \o LeBytes(h.reserved, 2)
      \o LeBytes(h.entry_point, 8) \o LeBytes(h.stack_size, 8)
      \o LeBytes(h.text_offset, 8) \o LeBytes(h.text_size, 8)
      \o LeBytes(h.data_offset, 8) \o LeBytes(h.data_size, 8)
      \o LeBytes(h.bss_size, 8) \o LeBytes(h.reloc_count, 8)
      \o LeBytes(h.symbol_count, 8)

RelocationKindTag(kind) ==
    CASE kind = "Absolute64" -> 0 [] kind = "Relative32" -> 1 [] kind = "Absolute32" -> 2
SymbolKindTag(kind) ==
    CASE kind = "Function" -> 0 [] kind = "Data" -> 1 [] kind = "Object" -> 2

\* The external symbols call_external can name.
SymbolNameBytes(symbol) == NameBytes(symbol)

relocation_as_bytes(r) ==
    LeBytes(r.offset, 8) \o LeBytes(Len(SymbolNameBytes(r.symbol)), 8)
      \o SymbolNameBytes(r.symbol) \o <<0>> \o <<RelocationKindTag(r.kind)>>

symbol_as_bytes(sym) ==
    LeBytes(Len(NameBytes(sym.name)), 8) \o NameBytes(sym.name) \o <<0>>
      \o LeBytes(sym.offset, 8) \o LeBytes(sym.size, 8) \o <<SymbolKindTag(sym.kind)>>

\* `for reloc in &object.relocations` and `for sym in &object.symbols`: the
\* records from index i on, in order.
RECURSIVE RelocationRecords(_, _)
RelocationRecords(relocations, i) ==
    IF i > Len(relocations) THEN <<>>
    ELSE relocation_as_bytes(relocations[i]) \o RelocationRecords(relocations, i + 1)

RECURSIVE SymbolRecords(_, _)
SymbolRecords(symbols, i) ==
    IF i > Len(symbols) THEN <<>>
    ELSE symbol_as_bytes(symbols[i]) \o SymbolRecords(symbols, i + 1)

\* The bytes write_aura_binary writes, in order.
write_aura_binary(object) ==
    LET header == AuraBinaryHeader(object)
        text_pad == align_to(Len(object.text), 16) - Len(object.text)
        data_pad == align_to(Len(object.data), 16) - Len(object.data)
    IN header_as_bytes(header)
         \o object.text
         \o (IF text_pad > 0 THEN Zeros(text_pad) ELSE <<>>)
         \o object.data
         \o (IF data_pad > 0 THEN Zeros(data_pad) ELSE <<>>)
         \o RelocationRecords(object.relocations, 1)
         \o SymbolRecords(object.symbols, 1)

----------------------------------------------------------------------------
(* The programs the model compiles                                         *)

MaxStmts == 2
MaxItems == 2

Hi == <<104, 105, 10>>

LiteralValues == {0, 17, 32, 300, -1, -129, 70000}
IntSuffixes ==
    {"I8", "I16", "I32", "I64", "U8", "U16", "U32", "U64", "Usize", "Isize", "None"}

\* An integer literal in each position the generator emits from.
LiteralStmts(lit) ==
    {ExprStmt(lit), Return(Some(lit)), Let("x", None, lit), ConstStmt("c", None, lit)}

MainOf(body) == Function("main", <<>>, body, <<Entry(None)>>)

LiteralPrograms ==
    {<<MainOf(<<st>>)>> : st \in UNION {LiteralStmts(IntLit(v, sfx)) :
                                          v \in LiteralValues, sfx \in IntSuffixes}}

StmtPool ==
    {Return(None),
     Return(Some(IntLit(0, "None"))),
     Return(Some(Ident("c"))),
     Let("x", None, IntLit(17, "None")),
     Let("x", Some(BitInt(5, FALSE)), IntLit(17, "None")),
     Let("x", Some(BitInt(5, FALSE)), IntLit(32, "None")),
     Let("y", None, Ident("x")),
     ConstStmt("c", None, IntLit(42, "None")),
     ConstStmt("c", None, Str(Hi)),
     ExprStmt(Syscall("write", <<Str(Hi)>>)),
     ExprStmt(Ident("u")),
     ExprStmt(Free(Ident("x"), Ident("u"))),
     ExprStmt(Cast(IntLit(17, "U8"), BitInt(5, FALSE))),
     ExprStmt(Alloc(Ty("U8"), IntLit(17, "U64"))),
     ExprStmt(IntLit(70000, "U32")),
     Asm(<<Ident("u")>>, <<>>),
     Block(<<ConstStmt("c", None, IntLit(17, "None")), Return(None)>>)}

SeqsUpTo(S, n) == UNION {[1..k -> S] : k \in 0..n}

BodyPrograms == {<<MainOf(body)>> : body \in SeqsUpTo(StmtPool, MaxStmts)}

ItemPool ==
    {ConstDecl("N", Some(Ty("I32")), IntLit(42, "None")),
     ConstDecl("N", None, Str(Hi)),
     ConstDecl("c", None, BoolLit(TRUE)),
     VarDecl("v", None, IntLit(0, "None")),
     StructItem("S", <<[name |-> "x", ty |-> Ty("I32")]>>),
     MainOf(<<Return(Some(IntLit(0, "None")))>>),
     Function("f", <<Param("p", Ty("I32"))>>,
              <<ConstStmt("c", None, IntLit(42, "None")), Let("y", None, Ident("p"))>>,
              <<Inline>>),
     Function("g", <<>>,
              <<ConstStmt("c", None, IntLit(17, "None")), Return(Some(Ident("c")))>>,
              <<Entry(Some("main"))>>)}

ItemPrograms == SeqsUpTo(ItemPool, MaxItems)

\* A bit-precise declared type on an integer-literal initializer.
BitIntPrograms ==
    {<<MainOf(<<Let("x", Some(BitInt(5, FALSE)), IntLit(v, sfx))>>)>> :
        v \in {17, 32}, sfx \in IntSuffixes}

\* Control statements: a condition of each kind in front of a body that is
\* empty or holds an ill-typed statement.
Conditions == {IntLit(1, "None"), BoolLit(TRUE), Str(Hi)}
IllTyped(name) == ExprStmt(Ident(name))
Bodies == {<<>>, <<IllTyped("u")>>}
CountedLoops ==
    {For(init, c, update, body) :
        init \in {Let("i", None, IntLit(0, "None")), IllTyped("w")},
        c \in Conditions \cup {Binary("Lt", Ident("i"), IntLit(10, "None"))},
        update \in {ExprStmt(Ident("i")), IllTyped("q")},
        body \in Bodies}
ControlStmts ==
    {If(c, body, None) : c \in Conditions, body \in Bodies}
      \cup {If(c, <<>>, Some(body)) : c \in Conditions, body \in Bodies}
      \cup {While(c, body) : c \in Conditions, body \in Bodies}
      \cup {ExprStmt(IfExpr(c, t, IntLit(2, "None"))) :
               c \in Conditions, t \in {Ident("u"), IntLit(1, "None"), BoolLit(FALSE)}}
      \cup CountedLoops
ControlPrograms == {<<MainOf(<<st>>)>> : st \in ControlStmts}

\* Assignment to a let-bound and to a const-bound name.
AssignPrograms ==
    {<<MainOf(<<Let("x", None, IntLit(17, "None")),
                ExprStmt(Assign(Ident("x"), IntLit(1, "None")))>>)>>,
     <<MainOf(<<ConstStmt("c", None, IntLit(42, "None")),
                ExprStmt(Assign(Ident("c"), IntLit(1, "None")))>>)>>}

\* A field access on a struct value and through a struct pointer, the struct
\* declared before and after the function.
StructS == StructItem("S", <<[name |-> "x", ty |-> Ty("I32")]>>)
Accessors ==
    {Function("f", <<Param("p", Named("S"))>>,
              <<ExprStmt(Field(Ident("p"), "x"))>>, <<>>),
     Function("f", <<Param("p", MutPtr(Named("S")))>>,
              <<ExprStmt(PtrField(Ident("p"), "x"))>>, <<>>)}
StructOrderPrograms ==
    {<<StructS, f>> : f \in Accessors} \cup {<<f, StructS>> : f \in Accessors}

\* An i32 value meeting an i64 value without a cast.
BinaryOps ==
    {"Add", "Sub", "Mul", "Div", "Mod", "LShift", "RShift", "BitAnd", "BitOr", "BitXor",
     "Eq", "Neq", "Lt", "Gt", "LtEq", "GtEq"}
MixedNumericBodies ==
    {<<Let("x", Some(Ty("I64")), IntLit(1, "I32"))>>,
     <<ConstStmt("c", Some(Ty("I64")), IntLit(1, "I32"))>>,
     <<ConstStmt("c", None, IntLit(1, "I32")),
       ExprStmt(Assign(Ident("c"), IntLit(1, "I64")))>>,
     <<ExprStmt(Call(Ident("h"), <<IntLit(1, "I64")>>))>>,
     <<ExprStmt(IfExpr(BoolLit(TRUE), IntLit(1, "I32"), IntLit(1, "I64")))>>}
      \cup {<<ExprStmt(Binary(op, IntLit(1, "I32"), IntLit(1, "I64")))>> : op \in BinaryOps}
MixedNumericPrograms ==
    {<<Function("main", <<Param("h", FuncTy(<<Ty("I32")>>, Ty("Void")))>>, body,
                <<Entry(None)>>)>> : body \in MixedNumericBodies}

\* Entry attributes that name another function, a missing function, a const.
Plain(n) == Function(n, <<>>, <<Return(None)>>, <<>>)
EntryAt(n, target) == Function(n, <<>>, <<Return(None)>>, <<Entry(target)>>)
EntryPrograms ==
    {<<EntryAt("g", Some("f")), Plain("f")>>,
     <<Plain("f"), EntryAt("g", Some("f"))>>,
     <<Plain("f"), Plain("f"), EntryAt("g", Some("f"))>>,
     <<EntryAt("g", Some("f"))>>,
     <<EntryAt("g", Some("S")), StructS>>,
     <<ConstDecl("f", None, IntLit(42, "None")), EntryAt("g", Some("f"))>>,
     <<Plain("f"), EntryAt("g", None)>>,
     <<EntryAt("g", Some("f")), EntryAt("f", None)>>,
     <<EntryAt("f", None), EntryAt("g", Some("u"))>>,
     <<EntryAt("g", Some("u")), EntryAt("f", None)>>,
     <<Plain("f"), Plain("g")>>}

\* A cast of the literal 17u8 to each target type of the conversion table.
CastTargets ==
    {Ty(k) : k \in {"I8", "U8", "I16", "U16", "I32", "U32", "I64", "U64"}}
      \cup {BitInt(b, sg) : b \in {1, 5, 8, 31, 32, 33, 63, 64, 128}, sg \in BOOLEAN}
CastPrograms == {<<MainOf(<<ExprStmt(Cast(IntLit(17, "U8"), t))>>)>> : t \in CastTargets}

\* A syscall with a string payload, with and without a file descriptor, after
\* zero or one 8-byte const, followed by `return`.
SyscallArgs ==
    {<<Str(Hi)>>, <<Str(<<>>)>>, <<IntLit(2, "None"), Str(Hi)>>, <<IntLit(0, "I32"), Str(Hi)>>}
SyscallPrograms ==
    {<<MainOf(pre \o <<ExprStmt(Syscall(name, args)), Return(None)>>)>> :
        pre \in {<<>>, <<ConstStmt("c", None, IntLit(42, "None"))>>},
        name \in {"write", "read", "exit"},
        args \in SyscallArgs}


\* `return e` for e a local let binding, a data symbol, a cast, an alloc, a
\* free and a syscall.
ReturnBodies ==
    {<<Let("x", None, IntLit(17, "None")), Return(Some(Ident("x")))>>,
     <<ConstStmt("c", None, IntLit(42, "None")), Return(Some(Ident("c")))>>,
     <<ConstStmt("c", None, IntLit(17, "None")), ConstStmt("N", None, IntLit(42, "None")),
       Return(Some(Ident("N")))>>,
     <<Return(Some(Cast(IntLit(17, "U8"), Ty("I8"))))>>,
     <<Return(Some(Alloc(Ty("U8"), IntLit(17, "U64"))))>>,
     <<Let("x", None, IntLit(17, "None")),
       Return(Some(Free(Ident("x"), IntLit(8, "U64"))))>>,
     <<Return(Some(Syscall("write", <<Str(Hi)>>)))>>}
ReturnPrograms == {<<MainOf(body)>> : body \in ReturnBodies}


\* Uses of a data location: the data symbol N at offset 8 loaded by an
\* expression statement and by a return, the let slot x at offset 0 copied to
\* the slot y at offset 8, and a write payload at offset 8.
LoadsSymbol ==
    <<MainOf(<<ConstStmt("c", None, IntLit(17, "None")),
               ConstStmt("N", None, IntLit(42, "None")), ExprStmt(Ident("N"))>>)>>
ReturnsSymbol ==
    <<MainOf(<<ConstStmt("c", None, IntLit(17, "None")),
               ConstStmt("N", None, IntLit(42, "None")), Return(Some(Ident("N")))>>)>>
CopiesSlot ==
    <<MainOf(<<Let("x", None, IntLit(17, "None")), Let("y", None, Ident("x"))>>)>>
WritesPayload ==
    <<MainOf(<<Let("x", None, IntLit(17, "None")), ExprStmt(Syscall("write", <<Str(Hi)>>))>>)>>
AddressPrograms == {LoadsSymbol, ReturnsSymbol, CopiesSlot, WritesPayload}


\* A parameter p of each pointer variant and of a non-pointer type, under a
\* dereference of each form, an index and a pointer field access.
StructW == StructItem("W", <<[name |-> "x", ty |-> Ty("I64")]>>)
ParamTypes(t) == {PtrTy(t), MutPtr(t), ConstPtr(t), t}
PointerUses ==
    {<<pt, use>> : pt \in ParamTypes(Ty("U16")),
                   use \in {Unary("Deref", Ident("p")), Deref(Ident("p")),
                            Index(Ident("p"), IntLit(0, "None"))}}
      \cup {<<pt, PtrField(Ident("p"), "x")>> : pt \in ParamTypes(Named("W"))}
PointerPrograms ==
    {<<StructW, Function("f", <<Param("p", u[1])>>, <<ExprStmt(u[2])>>, <<>>)>> :
        u \in PointerUses}


\* A let with an initializer of each kind, at data offset 0 and at offset 8.
LetInitializers ==
    {IntLit(-1, "I8"), IntLit(70000, "None"), Ident("x"), BoolLit(TRUE), Str(Hi),
     Cast(IntLit(17, "U8"), Ty("I8")), Alloc(Ty("U8"), IntLit(17, "U64")),
     Syscall("write", <<Str(Hi)>>),
     Cast(Syscall("write", <<IntLit(2, "None"), Str(Hi)>>), Ty("I64"))}
LetPrograms ==
    {<<MainOf(pre \o <<Let(n, None, v)>>)>> :
        pre \in {<<>>, <<Let("x", None, IntLit(17, "None"))>>},
        n \in {"x", "y"},
        v \in LetInitializers}


\* A statement the generator skips, between a let and a return; the nested
\* statements are ones that emit bytes or fail when they are generated.
Nested ==
    {<<>>,
     <<Let("z", None, IntLit(1, "None")), Return(Some(IntLit(1, "None")))>>,
     <<ExprStmt(Syscall("write", <<Str(Hi)>>))>>,
     <<ExprStmt(IntLit(300, "U8"))>>,
     <<ExprStmt(Syscall("exit", <<IntLit(1, "None")>>))>>}
SkippedStmts ==
    {Break, Continue, Asm(<<Ident("u")>>, <<>>)}
      \cup {If(BoolLit(TRUE), body, None) : body \in Nested}
      \cup {If(BoolLit(FALSE), <<>>, Some(body)) : body \in Nested}
      \cup {While(BoolLit(TRUE), body) : body \in Nested}
      \cup {For(Let("i", None, IntLit(0, "None")),
                Binary("Lt", Ident("i"), IntLit(10, "None")),
                ExprStmt(Syscall("write", <<Str(Hi)>>)), body) : body \in Nested}
      \cup {Defer(st) : st \in {Return(None), Let("z", None, IntLit(1, "None")),
                                ExprStmt(Syscall("exit", <<>>))}}
SkippedPrograms ==
    {<<MainOf(<<Let("x", None, IntLit(17, "None")), st, Return(Some(IntLit(0, "None")))>>)>> :
        st \in SkippedStmts}


\* Calls: the two allocator intrinsics, alone and nested, and calls of a
\* function-typed parameter (the generator emits nothing for a Call).
CallBodies ==
    {<<ExprStmt(Alloc(Ty("U8"), IntLit(17, "U64")))>>,
     <<Let("x", None, Alloc(Ty("U8"), IntLit(17, "U64"))),
       ExprStmt(Free(Ident("x"), IntLit(17, "U64")))>>,
     <<ExprStmt(Free(Alloc(Ty("U8"), IntLit(1, "U64")), IntLit(1, "U64")))>>,
     <<ExprStmt(Call(Ident("h"), <<IntLit(1, "I32")>>))>>,
     <<Let("x", None, Call(Ident("h"), <<IntLit(1, "I32")>>)),
       Return(Some(Call(Ident("h"), <<IntLit(1, "I32")>>)))>>}
CallPrograms ==
    {<<Function("main", <<Param("h", FuncTy(<<Ty("I32")>>, Ty("Void")))>>, body,
                <<Entry(None)>>)>> : body \in CallBodies}


\* A use, in the body of main, of a name that an earlier item declares: a
\* const, a var, a function (also as a callee), a let of another function, and
\* a let inside the block expression that initializes a const.
UseOf(n) == {Return(Some(Ident(n))), ExprStmt(Call(Ident(n), <<>>))}
Declaring(n) ==
    {ConstDecl(n, None, IntLit(42, "None")),
     VarDecl(n, None, IntLit(0, "None")),
     Plain(n),
     Function("f", <<Param(n, Ty("I32"))>>, <<Return(None)>>, <<>>),
     Function("f", <<>>, <<Let(n, None, IntLit(1, "None"))>>, <<>>),
     ConstDecl(n, None, BlockExpr(<<Let("t", None, IntLit(1, "None"))>>, Some(Ident("t")))),
     ConstDecl("N", None, BlockExpr(<<Let(n, None, IntLit(1, "None"))>>, Some(Ident(n)))),
     VarDecl("v", None, BlockExpr(<<ConstStmt(n, None, IntLit(1, "None"))>>, None))}
TopLevelPrograms ==
    {<<d, MainOf(<<use>>)>> : d \in Declaring("c"), use \in UseOf("c")}
      \cup {<<MainOf(<<use>>)>> : use \in UseOf("main")}


\* Programs in which an earlier symbol has the name of a function: a const
\* named like the entry function, and a function defined twice.
SameNamePrograms ==
    {<<ConstDecl("main", None, IntLit(42, "None")), MainOf(<<Return(Some(IntLit(7, "None")))>>)>>,
     <<ConstDecl("N", None, IntLit(42, "None")), MainOf(<<Return(Some(IntLit(7, "None")))>>)>>,
     <<Plain("f"), Function("f", <<>>, <<Return(Some(IntLit(7, "None")))>>, <<>>), MainOf(<<>>)>>}


\* A let that copies a parameter, a local constant, and an earlier let.
CopyPrograms ==
    {<<Function("f", <<Param("p", Ty("I64"))>>, <<Let("y", None, Ident("p"))>>, <<>>), MainOf(<<>>)>>,
     <<MainOf(<<ConstStmt("c", None, IntLit(42, "None")), Let("y", None, Ident("c"))>>)>>,
     <<MainOf(<<Let("x", None, IntLit(42, "None")), Let("y", None, Ident("x"))>>)>>}

Programs ==
    LiteralPrograms \cup BitIntPrograms \cup BodyPrograms \cup ItemPrograms
      \cup ControlPrograms \cup AssignPrograms \cup StructOrderPrograms
      \cup MixedNumericPrograms \cup EntryPrograms
      \cup CastPrograms \cup SyscallPrograms \cup ReturnPrograms
      \cup AddressPrograms \cup PointerPrograms \cup LetPrograms
      \cup SkippedPrograms \cup CallPrograms \cup TopLevelPrograms
      \cup SameNamePrograms \cup CopyPrograms

----------------------------------------------------------------------------
(* The command line (src/src/main.rs) and compile_file, typecheck_file,    *)
(* dump_binary (src/src/lib.rs)                                            *)

\* The bytes of the strings a command line of the model may hold after the
\* command.
Bytes(s) ==
    CASE s = "a.aura"     -> <<97, 46, 97, 117, 114, 97>>
      [] s = "a.au"       -> <<97, 46, 97, 117>>
      [] s = "a.bin"      -> <<97, 46, 98, 105, 110>>
      [] s = "out.aura"   -> <<111, 117, 116, 46, 97, 117, 114, 97>>
      [] s = "-o"         -> <<45, 111>>
      [] s = "-x"         -> <<45, 120>>
      [] s = "-v"         -> <<45, 118>>
      [] s = "-"          -> <<45>>
      [] s = "--"         -> <<45, 45>>
      [] s = "--verbose"  -> <<45, 45, 118, 101, 114, 98, 111, 115, 101>>
      [] s = "-oout.aura" -> <<45, 111, 111, 117, 116, 46, 97, 117, 114, 97>>
      [] s = ""           -> <<>>

\* The option loop of `build`, from index i (args[0] is TLA+ index 1):
\* args[i].starts_with('-') looks at the first byte of the argument.
RECURSIVE build_options(_, _, _, _)
build_options(args, i, source, output) ==
    IF i > Len(args) THEN [ok |-> TRUE, source |-> source, output |-> output]
    ELSE IF args[i] = "-o" /\ i + 1 <= Len(args)
         THEN build_options(args, i + 2, source, Some(args[i + 1]))
    ELSE IF Bytes(args[i]) # <<>> /\ Bytes(args[i])[1] = 45
         THEN [ok |-> FALSE, option |-> args[i]]
    ELSE build_options(args, i + 1, Some(args[i]), output)

UsageLines ==
    <<"Aura Compiler v0.1.0",
      "Usage: aura <command> [options]",
      "Commands:",
      "  build [options] <source.aura>  Compile source to .aura binary",
      "  run <binary.aura>              Build and run",
      "  check <source.aura>            Type check only",
      "  dump <binary.aura>             Dump binary info",
      "Options:",
      "  -o <output.aura>  Specify output file">>

\* The process before main runs; `input` is what fs::read returned to `dump`,
\* `path` the path compile_file gave to write_aura_binary.
NewProcess(args) ==
    [args |-> args, mode |-> "none", source |-> None, output |-> None, input |-> None,
     path |-> None, stdout |-> <<>>, stderr |-> <<>>, exit_code |-> None]

\* eprintln!(line); process::exit(1).
ExitWithMessage(c, lines) == [c EXCEPT !.stderr = @ \o lines, !.exit_code = Some(1)]

\* The `build` arm up to the call of compile_file, b the result of the option loop.
BuildArm(c, b) ==
    IF ~b.ok THEN ExitWithMessage(c, <<"Unknown option: {}">>)
    ELSE IF ~b.source.some
         THEN ExitWithMessage(c, <<"Usage: aura build [-o <output.aura>] <source.aura>">>)
    ELSE [c EXCEPT !.mode = "build", !.source = b.source, !.output = b.output]

\* main up to the call into the library: the process has exited (exit_code is
\* set) or a mode is chosen.
main(c) ==
    IF Len(c.args) < 2 THEN ExitWithMessage(c, UsageLines)
    ELSE CASE c.args[2] = "build" -> BuildArm(c, build_options(c.args, 3, None, None))
           [] c.args[2] = "check" ->
                IF Len(c.args) < 3
                THEN ExitWithMessage(c, <<"Usage: aura check <source.aura>">>)
                ELSE [c EXCEPT !.mode = "check", !.source = Some(c.args[3])]
           [] c.args[2] = "dump" ->
                IF Len(c.args) < 3
                THEN ExitWithMessage(c, <<"Usage: aura dump <binary.aura>">>)
                ELSE [c EXCEPT !.mode = "dump", !.source = Some(c.args[3])]
           [] OTHER -> ExitWithMessage(c, <<"Unknown command: {}">>)

\* u64::from_le_bytes(data[pos..pos + 8]), pos counted from 0.
RECURSIVE from_le_bytes(_, _, _)
from_le_bytes(data, pos, n) ==
    IF n = 0 THEN 0 ELSE data[pos + 1] + 256 * from_le_bytes(data, pos + 1, n - 1)

from_bytes(data) ==
    [magic |-> SubSeq(data, 1, 4),
     version |-> data[5],
     flags |-> data[6],
     reserved |-> from_le_bytes(data, 6, 2),
     entry_point |-> from_le_bytes(data, 8, 8),
     stack_size |-> from_le_bytes(data, 16, 8),
     text_offset |-> from_le_bytes(data, 24, 8),
     text_size |-> from_le_bytes(data, 32, 8),
     data_offset |-> from_le_bytes(data, 40, 8),
     data_size |-> from_le_bytes(data, 48, 8),
     bss_size |-> from_le_bytes(data, 56, 8),
     reloc_count |-> from_le_bytes(data, 64, 8),
     symbol_count |-> from_le_bytes(data, 72, 8)]

\* A printed line: the format string and the values formatted into it.
Line(format, values) == [format |-> format, values |-> values]

\* print_hex: one line per chunk of 16 bytes, from chunk i (counted from 0).
RECURSIVE print_hex(_, _)
print_hex(data, i) ==
    IF 16 * i >= Len(data) THEN <<>>
    ELSE <<Line("{:08x}: {:<48}",
                <<16 * i, SubSeq(data, 16 * i + 1,
                                 IF 16 * i + 16 <= Len(data) THEN 16 * i + 16 ELSE Len(data))>>)>>
           \o print_hex(data, i + 1)

\* The lines of AuraBinary::dump after the header check, h the parsed header.
DumpLines(data, h) ==
    <<Line("=== Aura Binary Dump ===", <<>>),
      Line("Magic: {}", <<h.magic>>),
      Line("Version: {}", <<h.version>>),
      Line("Entry Point: 0x{:016x}", <<h.entry_point>>),
      Line("Stack Size: {}", <<h.stack_size>>),
      Line("Text Offset: {}, Size: {}", <<h.text_offset, h.text_size>>),
      Line("Data Offset: {}, Size: {}", <<h.data_offset, h.data_size>>),
      Line("BSS Size: {}", <<h.bss_size>>),
      Line("Relocations: {}", <<h.reloc_count>>),
      Line("Symbols: {}", <<h.symbol_count>>)>>
      \o (IF h.text_offset + h.text_size <= Len(data) /\ h.text_size > 0
          THEN <<Line("\n=== Text Section ({} bytes) ===", <<h.text_size>>)>>
                 \o print_hex(SubSeq(data, h.text_offset + 1, h.text_offset + h.text_size), 0)
          ELSE <<>>)
      \o (IF h.data_offset + h.data_size <= Len(data) /\ h.data_size > 0
          THEN <<Line("\n=== Data Section ({} bytes) ===", <<h.data_size>>)>>
                 \o print_hex(SubSeq(data, h.data_offset + 1, h.data_offset + h.data_size), 0)
          ELSE <<>>)

\* AuraBinary::dump: it returns Ok(()) on every path.
dump(c, data) ==
    IF Len(data) < SizeOfAuraBinaryHeader
    THEN [c EXCEPT !.stderr = Append(@, "File too small for header")]
    ELSE [c EXCEPT !.stdout = @ \o DumpLines(data, from_bytes(data))]

\* Path::new(p): the bytes of the string.
Path(p) == Bytes(p)

\* Path::file_name: the last component of the path when it is a normal one,
\* as the indices of its first and last byte.  A root '/' or a leading "." is
\* before the body; in the body empty components and "." are passed over, and
\* a path that ends in ".." has no file name.
file_name(path) ==
    LET n == Len(path)
        root == n > 0 /\ path[1] = 47
        cur_dir == ~root /\ n > 0 /\ path[1] = 46 /\ (n = 1 \/ path[2] = 47)
        front == IF root \/ cur_dir THEN 1 ELSE 0
        First(i) ==
            LET before == {front} \cup {j \in (front + 1)..i : path[j] = 47}
            IN (CHOOSE j \in before : \A k \in before : k <= j) + 1
        Last(i) ==
            LET after == {n + 1} \cup {j \in i..n : path[j] = 47}
            IN (CHOOSE j \in after : \A k \in after : j <= k) - 1
        named == {i \in (front + 1)..n :
                     path[i] # 47 /\ SubSeq(path, First(i), Last(i)) # <<46>>}
        end == CHOOSE i \in named : \A k \in named : k <= i
    IN IF named = {} THEN None
       ELSE IF SubSeq(path, First(end), end) = <<46, 46>> THEN None
       ELSE [some |-> TRUE, start |-> First(end), end |-> end]

\* Path::extension: what follows the last '.' of the file name, when that '.'
\* is not the first byte of the file name.
extension(path) ==
    LET name == file_name(path)
        dots == {i \in name.start..name.end : path[i] = 46}
        dot == CHOOSE i \in dots : \A k \in dots : k <= i
    IN IF ~name.some THEN None
       ELSE IF dots = {} THEN None
       ELSE IF dot = name.start THEN None
       ELSE Some(SubSeq(path, dot + 1, name.end))

\* PathBuf::set_extension: a path without file name is left as it is; else the
\* path is cut after the stem of the file name and '.' and the extension are
\* added when the extension is not empty.
set_extension(path, new_extension) ==
    LET name == file_name(path)
        dots == {i \in name.start..name.end : path[i] = 46}
        dot == CHOOSE i \in dots : \A k \in dots : k <= i
        stem_end == IF dots = {} THEN name.end
                    ELSE IF dot = name.start THEN name.end ELSE dot - 1
    IN IF ~name.some THEN path
       ELSE SubSeq(path, 1, stem_end)
              \o (IF new_extension = <<>> THEN <<>> ELSE <<46>> \o new_extension)

\* Path::with_extension: the path without the bytes of its extension, counted
\* from its end, then set_extension.
with_extension(path, new_extension) ==
    set_extension(IF extension(path).some
                  THEN SubSeq(path, 1, Len(path) - Len(extension(path).v))
                  ELSE path,
                  new_extension)

\* `let output = match output_path { Some(p) => Path::new(p).to_path_buf(),
\* None => Path::new(source_path).with_extension("aura") }`.
OutputPath(c) ==
    IF c.output.some THEN Path(c.output.v)
    ELSE with_extension(Path(c.source.v), <<97, 117, 114, 97>>)

\* An error of the operating system (std::io::Error) or of the lexer or parser.
StageError(kind, message) == [ok |-> FALSE, kind |-> kind, message |-> message]

----------------------------------------------------------------------------
(* The inputs of the model                                                 *)

BuildArgs == <<"aura", "build", "a.aura">>
CheckArgs == <<"aura", "check", "a.aura">>
BuildToArgs == <<"aura", "build", "-o", "out.aura", "a.aura">>
BuildOtherArgs == <<"aura", "build", "a.au">>

CommandLines ==
    {<<"aura">>,
     <<"aura", "build">>,
     BuildArgs,
     BuildToArgs,
     BuildOtherArgs,
     <<"aura", "build", "a.aura", "-o">>,
     <<"aura", "build", "-x", "a.aura">>,
     <<"aura", "build", "a.aura", "--verbose">>,
     <<"aura", "build", "-o", "out.aura">>,
     <<"aura", "check">>,
     CheckArgs,
     <<"aura", "dump">>,
     <<"aura", "dump", "a.bin">>,
     <<"aura", "run", "a.aura">>,
     <<"aura", "help">>}

\* A well-typed program, an ill-typed one, and one the generator rejects.
FewPrograms ==
    {<<MainOf(<<Return(Some(IntLit(0, "None")))>>)>>,
     <<MainOf(<<IllTyped("u")>>)>>,
     <<MainOf(<<ExprStmt(IntLit(300, "U8"))>>)>>}

\* The programs the source file may hold, for a command line.
SourcesFor(args) ==
    IF args = BuildArgs THEN Programs
    ELSE IF args \in {CheckArgs, BuildToArgs, BuildOtherArgs} THEN FewPrograms
    ELSE {<<>>}

\* The files `dump` may be given: too short for a header, a header of zeros,
\* a container with 4 bytes of text at offset 80 and 3 bytes of data at offset
\* 96, and the same container cut off before its data.
ContainerHeader ==
    <<65, 85, 82, 65, 1, 0, 0, 0>>
      \o LeBytes(0, 8) \o LeBytes(4096, 8)
      \o LeBytes(80, 8) \o LeBytes(4, 8)
      \o LeBytes(96, 8) \o LeBytes(3, 8)
      \o LeBytes(8, 8) \o LeBytes(0, 8) \o LeBytes(0, 8)

DumpInputs ==
    {<<>>,
     Zeros(SizeOfAuraBinaryHeader - 1),
     Zeros(SizeOfAuraBinaryHeader),
     ContainerHeader \o <<72, 49, 192, 195>> \o Zeros(12) \o Hi \o Zeros(13),
     ContainerHeader \o <<72, 49, 192, 195>> \o Zeros(12)}

----------------------------------------------------------------------------
(* The process: main, then compile_file, typecheck_file or dump_binary     *)

\* `locals` holds the locals of the function being walked: prev_fn of
\* typecheck_function, func_start of generate_function.
NoLocals == [prev_fn |-> None, func_start |-> 0]

Init ==
    /\ cli \in {NewProcess(args) : args \in CommandLines}
    /\ program \in SourcesFor(cli.args)
    /\ pc = "main"
    /\ item = 1
    /\ stmt = 0
    /\ tc = NewTypeContext
    /\ cg = NewCodeGenerator
    /\ locals = NoLocals
    /\ file = None
    /\ error = None
    /\ layout = None

\* The first error ends the library call: it is returned to main.
Fail(err) ==
    /\ pc' = "failed"
    /\ error' = Some(err)

\* A step of the type checker returned r: go on at (next_item, next_stmt), or fail.
TypecheckOutcome(r, next_item, next_stmt) ==
    IF r.ok
    THEN /\ tc' = r.ctx
         /\ item' = next_item
         /\ stmt' = next_stmt
         /\ UNCHANGED <<pc, error>>
    ELSE /\ Fail(r)
         /\ UNCHANGED <<tc, item, stmt>>

\* A step of the generator returned r: go on, or fail.
GenerateOutcome(r, next_pc, next_item, next_stmt) ==
    IF r.ok
    THEN /\ cg' = r.cg
         /\ pc' = next_pc
         /\ item' = next_item
         /\ stmt' = next_stmt
         /\ UNCHANGED error
    ELSE /\ Fail(r)
         /\ UNCHANGED <<cg, item, stmt>>

\* main, up to process::exit(1) or the call of compile_file, typecheck_file or
\* dump_binary.
Main ==
    /\ pc = "main"
    /\ cli' = main(cli)
    /\ pc' = IF cli'.exit_code.some THEN "exited"
             ELSE IF cli'.mode = "dump" THEN "dump" ELSE "read"
    /\ UNCHANGED <<program, item, stmt, tc, cg, locals, file, error, layout>>

\* fs::read_to_string(source_path)?
ReadSource ==
    /\ pc = "read"
    /\ \/ pc' = "lex" /\ UNCHANGED error
       \/ Fail(StageError("io::Error", "No such file or directory"))
    /\ UNCHANGED <<program, item, stmt, tc, cg, locals, file, cli, layout>>

\* lexer::lex(&source), a module outside the sources at hand: it returns the
\* tokens or an error.
Lex ==
    /\ pc = "lex"
    /\ \/ pc' = "parse" /\ UNCHANGED error
       \/ Fail(StageError("LexError", "Lexing failed: {:?}"))
    /\ UNCHANGED <<program, item, stmt, tc, cg, locals, file, cli, layout>>

\* parser::parse(&tokens), a module outside the sources at hand: it returns the
\* program or an error.
Parse ==
    /\ pc = "parse"
    /\ \/ pc' = "typecheck" /\ UNCHANGED error
       \/ Fail(StageError("ParseError", "Parsing failed: {}"))
    /\ UNCHANGED <<program, item, stmt, tc, cg, locals, file, cli, layout>>

\* typecheck_item on a Struct, Union, Enum, Const or Var item.
TypecheckItem ==
    /\ pc = "typecheck"
    /\ item <= Len(program)
    /\ program[item].i # "Function"
    /\ TypecheckOutcome(typecheck_item(tc, program[item]), item + 1, stmt)
    /\ UNCHANGED <<program, cg, locals, file, cli, layout>>

\* typecheck_function, up to its first statement.
TypecheckFunctionEnter ==
    /\ pc = "typecheck"
    /\ item <= Len(program)
    /\ program[item].i = "Function"
    /\ locals' = [locals EXCEPT !.prev_fn = tc.current_function]
    /\ tc' = typecheck_function_enter(tc, program[item])
    /\ pc' = "typecheck_body"
    /\ stmt' = 1
    /\ UNCHANGED <<program, item, cg, file, error, cli, layout>>

\* One turn of `for stmt in &f.body { self.typecheck_stmt(stmt)?; }`.
TypecheckStmt ==
    /\ pc = "typecheck_body"
    /\ stmt <= Len(program[item].body)
    /\ TypecheckOutcome(typecheck_stmt(tc, program[item].body[stmt]), item, stmt + 1)
    /\ UNCHANGED <<program, cg, locals, file, cli, layout>>

\* typecheck_function, after its last statement.
TypecheckFunctionLeave ==
    /\ pc = "typecheck_body"
    /\ stmt > Len(program[item].body)
    /\ tc' = typecheck_function_leave(tc, locals.prev_fn)
    /\ locals' = NoLocals
    /\ pc' = "typecheck"
    /\ item' = item + 1
    /\ stmt' = 0
    /\ UNCHANGED <<program, cg, file, error, cli, layout>>

\* typecheck_file returns Ok: `check` prints its message and main returns.
CheckPassed ==
    /\ pc = "typecheck"
    /\ item > Len(program)
    /\ cli.mode = "check"
    /\ cli' = [cli EXCEPT !.stdout = Append(@, Line("Type check passed", <<>>)),
                          !.exit_code = Some(0)]
    /\ pc' = "exited"
    /\ UNCHANGED <<program, item, stmt, tc, cg, locals, file, error, layout>>

\* In compile_file typecheck returns Ok; generate starts: CodeGenerator::new(),
\* the entry-point scan and the existence check.
GenerateBegin ==
    /\ pc = "typecheck"
    /\ item > Len(program)
    /\ cli.mode = "build"
    /\ GenerateOutcome(generate_begin(program), "generate", 1, stmt)
    /\ UNCHANGED <<program, tc, locals, file, cli, layout>>

\* generate_item on an item that is not a function.
GenerateItem ==
    /\ pc = "generate"
    /\ item <= Len(program)
    /\ program[item].i # "Function"
    /\ GenerateOutcome(generate_item(cg, program[item]), pc, item + 1, stmt)
    /\ UNCHANGED <<program, tc, locals, file, cli, layout>>

\* generate_function, up to its first statement.
GenerateFunctionEnter ==
    /\ pc = "generate"
    /\ item <= Len(program)
    /\ program[item].i = "Function"
    /\ locals' = [locals EXCEPT !.func_start = Len(cg.text)]
    /\ cg' = generate_function_enter(cg, program[item])
    /\ pc' = "generate_body"
    /\ stmt' = 1
    /\ UNCHANGED <<program, item, tc, file, error, cli, layout>>

\* One turn of `for stmt in &f.body { self.generate_stmt(stmt)?; }`.
GenerateStmt ==
    /\ pc = "generate_body"
    /\ stmt <= Len(program[item].body)
    /\ GenerateOutcome(generate_stmt(cg, program[item].body[stmt]), pc, item, stmt + 1)
    /\ UNCHANGED <<program, tc, locals, file, cli, layout>>

\* generate_function, after its last statement.
GenerateFunctionLeave ==
    /\ pc = "generate_body"
    /\ stmt > Len(program[item].body)
    /\ cg' = generate_function_leave(cg, program[item], locals.func_start)
    /\ locals' = NoLocals
    /\ pc' = "generate"
    /\ item' = item + 1
    /\ stmt' = 0
    /\ UNCHANGED <<program, tc, file, error, cli, layout>>

\* generate returns the object; write_aura_binary creates the file and writes
\* it, and compile_file prints its message.
WriteAuraBinary ==
    /\ pc = "generate"
    /\ item > Len(program)
    /\ file' = Some(write_aura_binary(AuraObject(cg)))
    /\ cli' = [cli EXCEPT !.path = Some(OutputPath(cli)),
                           !.stdout = Append(@, Line("Compiled: {} -> {}", <<>>))]
    /\ pc' = "done"
    /\ UNCHANGED <<program, item, stmt, tc, cg, locals, error, layout>>

\* write_aura_binary fails: File::create(path)? fails and the file is untouched,
\* or a write_all fails and the file holds the n bytes that were written before
\* the failure: write_all may store a part of its buffer before it fails, so
\* the file may end anywhere short of its last byte.
WriteAuraBinaryFails ==
    /\ pc = "generate"
    /\ item > Len(program)
    /\ \/ UNCHANGED file
       \/ \E n \in 0..(Len(write_aura_binary(AuraObject(cg))) - 1) :
              file' = Some(SubSeq(write_aura_binary(AuraObject(cg)), 1, n))
    /\ cli' = [cli EXCEPT !.path = Some(OutputPath(cli))]
    /\ Fail(StageError("io::Error", "write failed"))
    /\ UNCHANGED <<program, item, stmt, tc, cg, locals, layout>>

\* compile_file returns Ok(()): main returns and the process exits with 0.
BuildReturns ==
    /\ pc = "done"
    /\ cli' = [cli EXCEPT !.exit_code = Some(0)]
    /\ pc' = "exited"
    /\ UNCHANGED <<program, item, stmt, tc, cg, locals, file, error, layout>>

\* `if let Err(e) = result { eprintln!("Error: {:?}", e); process::exit(1); }`
ExitOnError ==
    /\ pc = "failed"
    /\ cli' = ExitWithMessage(cli, <<"Error: {:?}">>)
    /\ pc' = "exited"
    /\ UNCHANGED <<program, item, stmt, tc, cg, locals, file, error, layout>>

\* dump_binary: fs::read(binary_path)? then AuraBinary::dump(&data)?; main
\* returns after an Ok.
DumpBinary ==
    /\ pc = "dump"
    /\ \/ /\ Fail(StageError("io::Error", "No such file or directory"))
          /\ UNCHANGED cli
       \/ \E data \in DumpInputs :
              /\ cli' = [dump([cli EXCEPT !.input = Some(data)], data)
                           EXCEPT !.exit_code = Some(0)]
              /\ pc' = "exited"
              /\ UNCHANGED error
    /\ UNCHANGED <<program, item, stmt, tc, cg, locals, file, layout>>

Next ==
    \/ Main
    \/ ReadSource
    \/ Lex
    \/ Parse
    \/ TypecheckItem
    \/ TypecheckFunctionEnter
    \/ TypecheckStmt
    \/ TypecheckFunctionLeave
    \/ CheckPassed
    \/ GenerateBegin
    \/ GenerateItem
    \/ GenerateFunctionEnter
    \/ GenerateStmt
    \/ GenerateFunctionLeave
    \/ WriteAuraBinary
    \/ WriteAuraBinaryFails
    \/ BuildReturns
    \/ ExitOnError
    \/ DumpBinary

Spec == Init /\ [][Next]_vars

----------------------------------------------------------------------------
(* Type::size and Type::align (src/src/ast/mod.rs)                         *)

RECURSIVE size(_)
size(t) ==
    CASE t.k = "Void" -> 0
      [] t.k = "Bool" -> 1
      [] t.k \in {"I8", "U8"} -> 1
      [] t.k \in {"I16", "U16"} -> 2
      [] t.k \in {"I32", "U32", "F32"} -> 4
      [] t.k \in {"I64", "U64", "F64", "Usize", "Isize"} -> 8
      [] t.k = "BitInt" ->
           IF t.bits <= 8 THEN 1
           ELSE IF t.bits <= 16 THEN 2
           ELSE IF t.bits <= 32 THEN 4
           ELSE IF t.bits <= 64 THEN 8
           ELSE IF t.bits <= 128 THEN 16
           ELSE (t.bits + 7) \div 8
      [] t.k \in {"Ptr", "MutPtr", "ConstPtr"} -> 8
      [] t.k = "Array" -> t.len * size(t.inner)
      [] t.k = "Func" -> 8
      [] t.k = "Named" -> 0
      [] t.k = "Error" -> 0

RECURSIVE align(_)
align(t) ==
    CASE t.k = "Void" -> 1
      [] t.k = "Bool" -> 1
      [] t.k \in {"I8", "U8"} -> 1
      [] t.k \in {"I16", "U16"} -> 2
      [] t.k \in {"I32", "U32", "F32"} -> 4
      [] t.k \in {"I64", "U64", "F64", "Usize", "Isize"} -> 8
      [] t.k = "BitInt" ->
           IF t.bits <= 8 THEN 1
           ELSE IF t.bits <= 16 THEN 2
           ELSE IF t.bits <= 32 THEN 4
           ELSE IF t.bits <= 64 THEN 8
           ELSE IF t.bits <= 128 THEN 8
           ELSE 16
      [] t.k \in {"Ptr", "MutPtr", "ConstPtr"} -> 8
      [] t.k = "Array" -> align(t.inner)
      [] t.k = "Func" -> 1
      [] t.k = "Named" -> 1
      [] t.k = "Error" -> 1

\* Every width of a u8 but 0, signed and unsigned, and arrays of them.
MaxBits == 255
MeasuredTypes ==
    {BitInt(b, sg) : b \in 1..MaxBits, sg \in BOOLEAN}
      \cup {ArrayTy(n, BitInt(b, FALSE)) : n \in {0, 1, 2}, b \in {1, 8, 9, 64, 65, 128, 129}}
      \cup {Ty(k) : k \in {"Void", "Bool", "I8", "U16", "F32", "I64", "Usize", "Error"}}
      \cup {MutPtr(Ty("U8")), Named("S"), FuncTy(<<>>, Ty("Void"))}

\* A type is measured: `layout` holds it, then its size and alignment.
LayoutInit ==
    /\ layout \in {[ty |-> t, measured |-> FALSE] : t \in MeasuredTypes}
    /\ pc = "layout"
    /\ cli = NewProcess(<<"aura">>)
    /\ program = <<>>
    /\ item = 1
    /\ stmt = 0
    /\ tc = NewTypeContext
    /\ cg = NewCodeGenerator
    /\ locals = NoLocals
    /\ file = None
    /\ error = None

Measure ==
    /\ pc = "layout"
    /\ ~layout.measured
    /\ layout' = [ty |-> layout.ty, measured |-> TRUE,
                  size |-> size(layout.ty), align |-> align(layout.ty)]
    /\ UNCHANGED <<program, pc, item, stmt, tc, cg, locals, file, error, cli>>

LayoutSpec == LayoutInit /\ [][Measure]_vars

----------------------------------------------------------------------------
(* Vocabulary of the properties                                            *)

\* generate has returned Ok: every item has been emitted.
GenerateSucceeded == pc = "done" \/ (pc = "generate" /\ item > Len(program))

\* typecheck has returned Ok.
TypecheckAccepted ==
    \/ pc \in {"generate", "generate_body", "done"}
    \/ (pc = "failed" /\ error.v.kind = "CodegenError")

\* The type checker or the generator has returned an error (the other errors
\* of compile_file come from the file system, the lexer and the parser).
Refused == pc = "failed" /\ error.v.kind \in {"TypeError", "CodegenError"}

\* u64::from_le_bytes of the 8 bytes at file offset `off` (counted from 0).
RECURSIVE ReadLe(_, _, _)
ReadLe(bytes, off, n) ==
    IF n = 0 THEN 0 ELSE bytes[off + 1] + 256 * ReadLe(bytes, off + 1, n - 1)
ReadU64(bytes, off) == ReadLe(bytes, off, 8)

\* The least multiple of 16 that is at least n.
Align16(n) == CHOOSE m \in n..(n + 15) : m % 16 = 0

\* Bytes off+1 .. off+n of a byte sequence.
Slice(bytes, off, n) == SubSeq(bytes, off + 1, off + n)

ScenarioA == <<MainOf(<<Return(Some(IntLit(0, "None")))>>)>>

----------------------------------------------------------------------------
(* C1: `entry main() { return 0 }`                                         *)

\* C1 as stated: for the program that is one function main with attribute
\* Entry(None) and body `return 0`, generate produces text exactly 48 31 C0 C3,
\* entry_point 0 and exactly one symbol: Function main, offset 0, size 4.
C1_AsStated ==
    (program = ScenarioA /\ GenerateSucceeded) =>
        /\ cg.text = <<72, 49, 192, 195>>
        /\ cg.entry_point = 0
        /\ cg.symbols = <<Symbol("main", 0, 4, "Function")>>

\* C1 amended: for that program generate produces text exactly
\* 48 B8 00 00 00 00 00 00 00 00 C3 (mov rax, imm64 0; ret), entry_point 0 and
\* exactly one symbol: Function main, offset 0, size 11.
C1_ReturnZero ==
    (program = ScenarioA /\ GenerateSucceeded) =>
        /\ cg.text = <<72, 184, 0, 0, 0, 0, 0, 0, 0, 0, 195>>
        /\ cg.entry_point = 0
        /\ cg.symbols = <<Symbol("main", 0, 11, "Function")>>

C1_Witness == program = ScenarioA /\ GenerateSucceeded /\ pc = "done"

----------------------------------------------------------------------------
(* C2: the header                                                          *)

\* C2 as stated: the written file has a header of exactly 72 bytes before the
\* first text byte and its text_offset field (at file offset 24) is 72.
C2_AsStated ==
    pc = "done" =>
        /\ ReadU64(file.v, 24) = 72
        /\ Slice(file.v, 72, Len(cg.text)) = cg.text

\* C2 amended: the written file has a header of exactly 80 bytes before the first
\* text byte (the magic, version, flags, reserved and nine u64 fields), and its
\* text_offset field is 80, the file offset at which the text bytes begin.
C2_HeaderIs80Bytes ==
    pc = "done" =>
        /\ Len(file.v) >= 80 + Len(cg.text)
        /\ Slice(file.v, 0, 4) = <<65, 85, 82, 65>>
        /\ ReadU64(file.v, 24) = 80
        /\ Slice(file.v, 80, Len(cg.text)) = cg.text
        /\ ReadU64(file.v, 72) = Len(cg.symbols)

C2_Witness == pc = "done" /\ Len(cg.text) > 0 /\ Len(cg.symbols) > 1

----------------------------------------------------------------------------
(* C3: the layout of the sections                                          *)

\* C3: in the written file the text bytes begin at text_offset, the data bytes at
\* data_offset = text_offset + align16(text_size), the relocation and symbol
\* records at data_offset + align16(data_size), every padding byte is zero, and
\* the header's text_size and data_size are the unpadded lengths.
C3_SectionLayout ==
    pc = "done" =>
        LET f == file.v
            text_offset == ReadU64(f, 24)
            text_size == ReadU64(f, 32)
            data_offset == ReadU64(f, 40)
            data_size == ReadU64(f, 48)
            records == data_offset + Align16(data_size)
        IN /\ text_size = Len(cg.text)
           /\ data_size = Len(cg.data)
           /\ Slice(f, text_offset, text_size) = cg.text
           /\ data_offset = text_offset + Align16(text_size)
           /\ Slice(f, data_offset, data_size) = cg.data
           /\ \A i \in (text_offset + text_size + 1)..data_offset : f[i] = 0
           /\ \A i \in (data_offset + data_size + 1)..records : f[i] = 0
           /\ Len(f) >= records
           /\ Slice(f, records, Len(f) - records) =
                  RelocationRecords(cg.relocations, 1)
                    \o SymbolRecords(cg.symbols, 1)

\* A text of exactly 16 bytes (no padding) beside an empty data section.
C3_Witness == pc = "done" /\ Len(cg.text) = 16 /\ Len(cg.data) = 0

----------------------------------------------------------------------------
(* C4: the order of the symbols                                            *)

\* The names of the declarations that emit a symbol, in the order the generator
\* walks them: item order, then statement order (blocks included).
EmitsDataSymbol(c) ==
    c.value.e = "Literal" /\ c.value.lit.l \in {"Int", "String"}

RECURSIVE StmtDeclNames(_, _)
StmtDeclNames(stmts, i) ==
    IF i > Len(stmts) THEN <<>>
    ELSE (CASE stmts[i].s = "Const" /\ EmitsDataSymbol(stmts[i]) -> <<stmts[i].name>>
            [] stmts[i].s = "Block" -> StmtDeclNames(stmts[i].stmts, 1)
            [] OTHER -> <<>>)
         \o StmtDeclNames(stmts, i + 1)

RECURSIVE DeclNames(_, _)
DeclNames(items, i) ==
    IF i > Len(items) THEN <<>>
    ELSE (CASE items[i].i = "Function" ->
                 <<items[i].name>> \o StmtDeclNames(items[i].body, 1)
            [] items[i].i = "Const" /\ EmitsDataSymbol(items[i]) -> <<items[i].name>>
            [] OTHER -> <<>>)
         \o DeclNames(items, i + 1)

\* C4: the output is a function of the program alone: the symbols appear in the
\* order their declarations are emitted (item order, then statement order), in
\* the symbol table and in the container, whatever the maps hold.
C4_SymbolsInDeclarationOrder ==
    /\ GenerateSucceeded =>
           [k \in 1..Len(cg.symbols) |-> cg.symbols[k].name] = DeclNames(program, 1)
    /\ pc = "done" =>
           LET n == Len(SymbolRecords(cg.symbols, 1)) IN
           /\ Len(file.v) >= n
           /\ Slice(file.v, Len(file.v) - n, n) = SymbolRecords(cg.symbols, 1)

\* Three symbols from two items, one of them a local const.
C4_Witness ==
    /\ pc = "done"
    /\ Len(program) = 2
    /\ Len(cg.symbols) = 3
    /\ cg.symbols[2].kind # cg.symbols[3].kind

----------------------------------------------------------------------------
(* C5, C6: one symbol per declaration, unique names                        *)

SymbolsNamed(name) == {k \in 1..Len(cg.symbols) : cg.symbols[k].name = name}

\* C5 as stated: after generate succeeds, every top-level Const, Var and Function
\* item has exactly one entry in the symbol table carrying its name (a Function
\* symbol for a function, a Data symbol for a const).
C5_AsStated ==
    GenerateSucceeded =>
        \A i \in 1..Len(program) :
            program[i].i \in {"Const", "Var", "Function"} =>
                /\ Cardinality(SymbolsNamed(program[i].name)) = 1
                /\ \A k \in SymbolsNamed(program[i].name) :
                       /\ program[i].i = "Function" => cg.symbols[k].kind = "Function"
                       /\ program[i].i = "Const" => cg.symbols[k].kind = "Data"

\* C6 as stated: in every object generate returns for a program the type checker
\* accepted, no two symbols of the same kind have the same name.
C6_AsStated ==
    GenerateSucceeded =>
        \A j, k \in 1..Len(cg.symbols) :
            (j # k /\ cg.symbols[j].kind = cg.symbols[k].kind) =>
                cg.symbols[j].name # cg.symbols[k].name

----------------------------------------------------------------------------
(* C7: what an accepted program guarantees                                 *)

\* Name resolution by the scoping rule of the language: a function's parameters
\* and the let/const names declared before the reference, in one scope per
\* function body; a top-level initializer is resolved in the outermost scope,
\* where the let/const statements of its blocks stay bound for the items that
\* follow.  `strict` also visits the operands of asm statements and the size
\* argument of free.
Resolved(bound) == [ok |-> TRUE, bound |-> bound]
Then(r, K(_)) == IF r.ok THEN K(r.bound) ELSE r

RECURSIVE ResolveExpr(_, _, _), ResolveExprs(_, _, _, _)
RECURSIVE ResolveStmt(_, _, _), ResolveStmts(_, _, _, _)

ResolveExprs(bound, exprs, i, strict) ==
    IF i > Len(exprs) THEN Resolved(bound)
    ELSE Then(ResolveExpr(bound, exprs[i], strict),
              LAMBDA b : ResolveExprs(b, exprs, i + 1, strict))

ResolveStmts(bound, stmts, i, strict) ==
    IF i > Len(stmts) THEN Resolved(bound)
    ELSE Then(ResolveStmt(bound, stmts[i], strict),
              LAMBDA b : ResolveStmts(b, stmts, i + 1, strict))

ResolveExpr(bound, x, strict) ==
    CASE x.e \in {"Literal", "Sizeof", "Alignof", "Offsetof"} -> Resolved(bound)
      [] x.e = "Identifier" -> [ok |-> x.name \in bound, bound |-> bound]
      [] x.e \in {"Unary", "Cast", "AddrOf", "Deref", "Field", "PtrField"} ->
           ResolveExpr(bound, x.expr, strict)
      [] x.e \in {"Binary", "Assign"} ->
           Then(ResolveExpr(bound, x.l, strict), LAMBDA b : ResolveExpr(b, x.r, strict))
      [] x.e = "Index" ->
           Then(ResolveExpr(bound, x.arr, strict), LAMBDA b : ResolveExpr(b, x.idx, strict))
      [] x.e = "Call" ->
           Then(ResolveExpr(bound, x.f, strict), LAMBDA b : ResolveExprs(b, x.args, 1, strict))
      [] x.e = "Syscall" -> ResolveExprs(bound, x.args, 1, strict)
      [] x.e = "Block" ->
           Then(ResolveStmts(bound, x.stmts, 1, strict), LAMBDA b :
               IF x.result.some THEN ResolveExpr(b, x.result.v, strict) ELSE Resolved(b))
      [] x.e = "Alloc" -> ResolveExpr(bound, x.count, strict)
      [] x.e = "Free" ->
           Then(ResolveExpr(bound, x.ptr, strict), LAMBDA b :
               IF strict THEN ResolveExpr(b, x.size, strict) ELSE Resolved(b))
      [] x.e = "If" ->
           Then(ResolveExpr(bound, x.condition, strict), LAMBDA b :
           Then(ResolveExpr(b, x.then_expr, strict), LAMBDA b2 :
               ResolveExpr(b2, x.else_expr, strict)))

ResolveStmt(bound, st, strict) ==
    CASE st.s \in {"Let", "Const"} ->
           Then(ResolveExpr(bound, st.value, strict),
                LAMBDA b : Resolved(b \cup {st.name}))
      [] st.s = "Expr" -> ResolveExpr(bound, st.expr, strict)
      [] st.s = "Return" ->
           IF st.value.some THEN ResolveExpr(bound, st.value.v, strict) ELSE Resolved(bound)
      [] st.s \in {"Break", "Continue"} -> Resolved(bound)
      [] st.s = "Block" -> ResolveStmts(bound, st.stmts, 1, strict)
      [] st.s = "If" ->
           Then(ResolveExpr(bound, st.condition, strict), LAMBDA b :
           Then(ResolveStmts(b, st.then_branch, 1, strict), LAMBDA b2 :
               IF st.else_branch.some
               THEN ResolveStmts(b2, st.else_branch.v, 1, strict)
               ELSE Resolved(b2)))
      [] st.s = "While" ->
           Then(ResolveExpr(bound, st.condition, strict),
                LAMBDA b : ResolveStmts(b, st.body, 1, strict))
      [] st.s = "For" ->
           Then(ResolveStmt(bound, st.init, strict), LAMBDA b :
           Then(ResolveExpr(b, st.condition, strict), LAMBDA b2 :
           Then(ResolveStmt(b2, st.update, strict), LAMBDA b3 :
               ResolveStmts(b3, st.body, 1, strict))))
      [] st.s = "Asm" ->
           IF strict
           THEN Then(ResolveExprs(bound, st.inputs, 1, strict),
                     LAMBDA b : ResolveExprs(b, st.outputs, 1, strict))
           ELSE Resolved(bound)
      [] st.s = "Defer" -> ResolveStmt(bound, st.stmt, strict)

ResolveItem(global, it, strict) ==
    CASE it.i = "Function" ->
           Then(ResolveStmts(global \cup {it.params[k].name : k \in 1..Len(it.params)},
                             it.body, 1, strict),
                LAMBDA b : Resolved(global))
      [] it.i \in {"Const", "Var"} -> ResolveExpr(global, it.value, strict)
      [] OTHER -> Resolved(global)

RECURSIVE ResolveItems(_, _, _, _)
ResolveItems(global, items, i, strict) ==
    IF i > Len(items) THEN Resolved(global)
    ELSE Then(ResolveItem(global, items[i], strict),
              LAMBDA g : ResolveItems(g, items, i + 1, strict))

AllIdentifiersResolve(items, strict) == ResolveItems({}, items, 1, strict).ok

\* C7 as stated: in a program the type checker accepted, every expression
\* reachable from its items, the operands of asm statements and both arguments
\* of free included, has a non-Error type and every identifier resolves.
C7_AsStated ==
    TypecheckAccepted =>
        /\ AllIdentifiersResolve(program, TRUE)
        /\ Ty("Error") \notin tc.inferred

\* C7 amended: in a program the type checker accepted, every identifier outside
\* the operands of asm statements and the size argument of free resolves to a
\* parameter or an earlier let/const of its function, and every type the checker
\* inferred (no annotation of the program being Error) is not Error.
C7_CheckedExpressionsResolve ==
    TypecheckAccepted =>
        /\ AllIdentifiersResolve(program, FALSE)
        /\ Ty("Error") \notin tc.inferred

\* An accepted body that reads a let-bound name, and one with an asm operand.
C7_Witness ==
    /\ TypecheckAccepted
    /\ Len(program) = 1
    /\ program[1].i = "Function"
    /\ program[1].body = <<Let("x", None, IntLit(17, "None")), Let("y", None, Ident("x"))>>
    /\ Ty("I32") \in tc.inferred

----------------------------------------------------------------------------
(* C8, C9: suffixed integer literals                                       *)

\* The width and signedness a suffix names, and the range of that type.
SuffixBits(suffix) ==
    CASE suffix \in {"I8", "U8"} -> 8
      [] suffix \in {"I16", "U16"} -> 16
      [] suffix \in {"I32", "U32"} -> 32
      [] suffix \in {"I64", "U64", "Isize", "Usize"} -> 64
SuffixSigned(suffix) == suffix \in {"I8", "I16", "I32", "I64", "Isize"}

\* The literal values of the model lie strictly between -2^31 and 2^31.
InRange(v, suffix) ==
    LET b == SuffixBits(suffix) IN
    IF SuffixSigned(suffix)
    THEN b >= 32 \/ (-(2 ^ (b - 1)) <= v /\ v < 2 ^ (b - 1))
    ELSE v >= 0 /\ (b >= 32 \/ v < 2 ^ b)

\* The integer literal a statement or const item places in the output, if any.
IsIntLit(x) == x.e = "Literal" /\ x.lit.l = "Int"
StmtLiteral(st) ==
    CASE st.s \in {"Let", "Const"} /\ IsIntLit(st.value) -> Some(st.value.lit)
      [] st.s = "Expr" /\ IsIntLit(st.expr) -> Some(st.expr.lit)
      [] st.s = "Return" /\ st.value.some /\ IsIntLit(st.value.v) -> Some(st.value.v.lit)
      [] OTHER -> None
OutOfRange(l) == l.some /\ l.v.suffix # "None" /\ ~InRange(l.v.val, l.v.suffix)

\* C8 as stated: a program holding an integer literal whose suffix names a width
\* and whose value is outside that type's range never compiles successfully,
\* wherever the literal stands: expression statement, return value, let
\* initializer or const initializer.
C8_AsStated ==
    pc = "done" =>
        \A k \in 1..Len(program) :
            /\ program[k].i = "Function" =>
                   \A j \in 1..Len(program[k].body) :
                       ~OutOfRange(StmtLiteral(program[k].body[j]))
            /\ program[k].i = "Const" /\ IsIntLit(program[k].value) =>
                   ~OutOfRange(Some(program[k].value.lit))

\* The low b bits of v as b/8 little-endian bytes (two's complement).
Truncated(v, b) ==
    [n \in 1..(b \div 8) |->
        IF n <= 4 THEN (v \div (256 ^ (n - 1))) % 256
        ELSE IF v < 0 THEN 255 ELSE 0]

\* The move of the width: B0 imm8, 66 B8 imm16, B8 imm32, 48 B8 imm64.
WidthMove(v, b) ==
    (CASE b = 8 -> <<176>>
       [] b = 16 -> <<102, 184>>
       [] b = 32 -> <<184>>
       [] b = 64 -> <<72, 184>>) \o Truncated(v, b)

\* v & (2^b - 1) as the 8 bytes of a data slot.
MaskedSlot(v, b) == Truncated(v, b) \o [n \in 1..(8 - b \div 8) |-> 0]

\* C9 as stated: for a compiled program `main { st }` whose statement carries an
\* in-range literal Int(v, s) of width b, the value placed in the output is
\* v & (2^b - 1) in the encoding of the width: the move of width b for an
\* expression statement and for a return (followed by ret), the masked value in
\* the data slot for a let or const initializer; negative v included.
C9_AsStated ==
    (/\ pc = "done"
     /\ program \in LiteralPrograms
     /\ StmtLiteral(program[1].body[1]).v.suffix # "None"
     /\ ~OutOfRange(StmtLiteral(program[1].body[1]))) =>
        LET st == program[1].body[1]
            v == StmtLiteral(st).v.val
            b == SuffixBits(StmtLiteral(st).v.suffix)
        IN CASE st.s = "Expr" -> cg.text = WidthMove(v, b)
             [] st.s = "Return" -> cg.text = WidthMove(v, b) \o <<195>>
             [] st.s \in {"Let", "Const"} -> cg.data = MaskedSlot(v, b)

----------------------------------------------------------------------------
(* C10: a bit-precise declared type                                        *)

\* C10 as stated: a let whose declared type is BitInt(5, unsigned) and whose
\* initializer is the literal 17 is accepted by the type checker and by the
\* generator; with the literal 32 it is rejected with a message containing
\* "does not fit in type".
C10_AsStated ==
    \A sfx \in IntSuffixes :
        /\ program = <<MainOf(<<Let("x", Some(BitInt(5, FALSE)), IntLit(17, sfx))>>)>> =>
               ~Refused
        /\ (/\ program = <<MainOf(<<Let("x", Some(BitInt(5, FALSE)), IntLit(32, sfx))>>)>>
            /\ (pc = "done" \/ Refused)) =>
               /\ Refused
               /\ error.v.message = "Integer literal {} does not fit in type"

----------------------------------------------------------------------------
(* C11: conditions                                                         *)

\* typecheck has returned, with Ok or with a TypeError.
TypecheckReturned ==
    TypecheckAccepted \/ (pc = "failed" /\ error.v.kind = "TypeError")

Rejected(message, location) ==
    /\ pc = "failed"
    /\ error.v.kind = "TypeError"
    /\ error.v.message = message
    /\ error.v.location = location

\* Integer and string literals are not of type Bool.
NonBool(c) == c.e = "Literal" /\ c.lit.l \in {"Int", "String"}

IsMainOfOne(items) ==
    Len(items) = 1 /\ items[1].i = "Function" /\ Len(items[1].body) = 1

\* C11: an if statement, while statement, for statement or if expression whose
\* condition is not of type Bool is rejected with the TypeError of its condition
\* ("If condition must be bool" for an if) before any statement of its body is
\* checked: an ill-typed body does not change the error.  In a for statement the
\* init statement is checked first (its error wins, its binding is visible in
\* the condition) and the update statement after the condition and before the
\* body.
C11_ConditionsMustBeBool ==
    (IsMainOfOne(program) /\ TypecheckReturned) =>
        LET st == program[1].body[1] IN
        /\ (st.s = "If" /\ NonBool(st.condition)) =>
               Rejected("If condition must be bool, got {:?}", "if condition")
        /\ (st.s = "While" /\ NonBool(st.condition)) =>
               Rejected("While condition must be bool, got {:?}", "while condition")
        /\ (st.s = "Expr" /\ st.expr.e = "If" /\ NonBool(st.expr.condition)) =>
               Rejected("If condition must be bool, got {:?}", "if expression")
        /\ (st.s = "For" /\ st.init = IllTyped("w")) =>
               Rejected("Undefined variable: {}", "w")
        /\ (st.s = "For" /\ st.init.s = "Let" /\ NonBool(st.condition)) =>
               Rejected("For condition must be bool, got {:?}", "for condition")
        /\ (st.s = "For" /\ st.init.s = "Let" /\ ~NonBool(st.condition)
              /\ st.update = IllTyped("q")) =>
               Rejected("Undefined variable: {}", "q")
        /\ (st.s = "For" /\ st.init.s = "Let" /\ st.condition.e = "Binary"
              /\ st.update # IllTyped("q") /\ st.body = <<>>) =>
               TypecheckAccepted

\* A for statement with a well-typed init, an integer condition, and an
\* ill-typed update and body.
C11_Witness ==
    /\ IsMainOfOne(program)
    /\ program[1].body[1] =
           For(Let("i", None, IntLit(0, "None")), IntLit(1, "None"),
               IllTyped("q"), <<IllTyped("u")>>)
    /\ Rejected("For condition must be bool, got {:?}", "for condition")

----------------------------------------------------------------------------
(* C12: assignment to a binding                                            *)

\* C12 as stated: Assign(Identifier x, rhs) with equal types is accepted when x
\* was introduced by a let statement and rejected when x was introduced by a
\* local const statement.
C12_AsStated ==
    (program \in AssignPrograms /\ TypecheckReturned) =>
        /\ program[1].body[1].s = "Let" => TypecheckAccepted
        /\ program[1].body[1].s = "Const" => ~TypecheckAccepted

----------------------------------------------------------------------------
(* C13: the order of declarations                                          *)

\* C13 as stated: a Field or PtrField access on a value of type Named(s)
\* type-checks identically whether the struct item s stands before or after the
\* function holding the access: as the struct-first order is accepted, so is
\* the function-first order.
C13_AsStated ==
    (program \in StructOrderPrograms /\ TypecheckReturned) => TypecheckAccepted

----------------------------------------------------------------------------
(* C14: no implicit numeric conversion                                     *)

\* C14 as stated: no program is accepted in which an i32 and an i64 value meet
\* without a cast: declared type against initializer, the sides of an
\* assignment, argument against parameter, the branches of an if expression, or
\* the operands of a binary arithmetic, shift, bitwise or comparison operator.
C14_AsStated ==
    (program \in MixedNumericPrograms /\ TypecheckReturned) =>
        (pc = "failed" /\ error.v.kind = "TypeError")

----------------------------------------------------------------------------
(* C15: the entry point                                                    *)

\* The names the Entry attributes of a program choose: the attribute's string
\* for Entry(Some(n)), the function's own name for Entry(None).
EntryNamesOf(f) ==
    {IF f.attrs[j].name.some THEN f.attrs[j].name.v ELSE f.name :
        j \in {j \in 1..Len(f.attrs) : f.attrs[j].a = "Entry"}}
EntryNames(items) ==
    UNION {EntryNamesOf(items[k]) : k \in {k \in 1..Len(items) : items[k].i = "Function"}}

IsFunctionName(items, n) ==
    \E k \in 1..Len(items) : items[k].i = "Function" /\ items[k].name = n

NothingEmitted ==
    cg.text = <<>> /\ cg.data = <<>> /\ cg.symbols = <<>> /\ cg.bss_size = 0

\* C15: when the Entry attributes of a program choose a name that no Function
\* item has, generate fails with the CodegenError "Entry point function '{}'
\* does not exist" before it emits any item; when generate succeeds on a program
\* with an Entry attribute, entry_point is the offset of a Function symbol named
\* by one of them (by the only one when they agree).
C15_EntryPoint ==
    LET names == EntryNames(program) IN
    /\ (names # {} /\ \A n \in names : ~IsFunctionName(program, n)) =>
           /\ pc \notin {"generate", "generate_body", "done"}
           /\ (pc = "failed" /\ error.v.kind = "CodegenError") =>
                  /\ error.v.message = "Entry point function '{}' does not exist"
                  /\ NothingEmitted
    /\ (pc = "failed" /\ error.v.message = "Entry point function '{}' does not exist") =>
           /\ \E n \in names : ~IsFunctionName(program, n)
           /\ NothingEmitted
    /\ (names # {} /\ GenerateSucceeded) =>
           \E n \in names : \E k \in 1..Len(cg.symbols) :
               /\ cg.symbols[k].kind = "Function"
               /\ cg.symbols[k].name = n
               /\ cg.symbols[k].offset = cg.entry_point

\* The entry function is the second of two functions named f, at offset 4.
C15_Witness ==
    /\ program = <<Plain("f"), Plain("f"), EntryAt("g", Some("f"))>>
    /\ pc = "done"
    /\ cg.entry_point = 4

----------------------------------------------------------------------------
(* C16: the conversion a cast emits                                        *)

\* The low 32 bits of 2^b - 1, little-endian.
LowMask32(b) ==
    [n \in 1..4 |->
        IF b >= 8 * n THEN 255
        ELSE IF b <= 8 * (n - 1) THEN 0
        ELSE 2 ^ (b - 8 * (n - 1)) - 1]

\* The conversion table.
Conversion(t) ==
    CASE t.k = "I8" -> <<15, 190, 192>>
      [] t.k = "U8" -> <<15, 182, 192>>
      [] t.k = "I16" -> <<15, 191, 192>>
      [] t.k = "U16" -> <<15, 183, 192>>
      [] t.k \in {"I32", "U32", "I64", "U64"} -> <<>>
      [] t.k = "BitInt" /\ t.bits < 64 -> <<72, 37>> \o LowMask32(t.bits)
      [] t.k = "BitInt" /\ t.bits >= 64 -> <<>>

\* C16 as stated: for `main { (17u8 as T); }` the text is the code of the operand
\* (B0 11) followed by exactly the conversion of T from the table: 0F BE C0,
\* 0F B6 C0, 0F BF C0, 0F B7 C0, nothing for the 32- and 64-bit types, and
\* for BitInt(b,_) with b < 64 the six bytes 48 25 imm32 with the low 32 bits of
\* 2^b - 1.
C16_AsStated ==
    (program \in CastPrograms /\ GenerateSucceeded) =>
        cg.text = WidthMove(17, 8) \o Conversion(program[1].body[1].expr.ty)

----------------------------------------------------------------------------
(* C17: the write syscall                                                  *)

Imm64(v) == Truncated(v, 64)

\* mov rdi, fd; mov rsi, 0x01000000 + o; mov rdx, len; mov rax, 1; syscall.
WriteSequence(fd, o, len) ==
    <<72, 191>> \o Imm64(fd) \o <<72, 190>> \o Imm64(16777216 + o)
      \o <<72, 186>> \o Imm64(len) \o <<72, 184>> \o Imm64(1) \o <<15, 5>>

\* C17: for `main { [const c = 42;] write([fd,] s); return }` with a string
\* literal s, data is the bytes before the syscall (o of them: 8 per const)
\* followed by exactly the bytes of s, with no terminator, and text is
\* mov rdi,fd; mov rsi,0x01000000+o; mov rdx,len(s); mov rax,1; syscall followed
\* by 48 31 C0 C3, fd being 1 for one argument and the first argument's integer
\* for two.  A syscall of another name makes generate fail with the CodegenError
\* "Unknown syscall method: {}".
C17_WriteSyscall ==
    program \in SyscallPrograms =>
        LET body == program[1].body
            call == body[Len(body) - 1].expr
            s == call.args[Len(call.args)].lit.bytes
            fd == IF Len(call.args) = 2 THEN call.args[1].lit.val ELSE 1
            o == 8 * (Len(body) - 2)
        IN /\ (call.name = "write" /\ GenerateSucceeded) =>
                  /\ Len(cg.data) = o + Len(s)
                  /\ Slice(cg.data, o, Len(s)) = s
                  /\ cg.text = WriteSequence(fd, o, Len(s)) \o <<72, 49, 192, 195>>
           /\ call.name = "write" => ~Refused
           /\ call.name # "write" =>
                  /\ pc # "done"
                  /\ ~(pc = "generate_body" /\ stmt > Len(body) - 1)
                  /\ Refused =>
                         /\ error.v.kind = "CodegenError"
                         /\ error.v.message = "Unknown syscall method: {}"

\* A write to descriptor 2 of a payload stored at data offset 8.
C17_Witness ==
    /\ program = <<MainOf(<<ConstStmt("c", None, IntLit(42, "None")),
                            ExprStmt(Syscall("write", <<IntLit(2, "None"), Str(Hi)>>)),
                            Return(None)>>)>>
    /\ pc = "done"
    /\ Len(cg.data) = 11

----------------------------------------------------------------------------
(* C18: the stages of compile_file                                         *)

\* The stages of compile_file in their order; writing is the step that leaves
\* "generate" for "done".
StageRank(p) ==
    CASE p = "read" -> 1
      [] p = "lex" -> 2
      [] p = "parse" -> 3
      [] p \in {"typecheck", "typecheck_body"} -> 4
      [] p \in {"generate", "generate_body"} -> 5
      [] p = "done" -> 6

InStage(p) ==
    p \in {"read", "lex", "parse", "typecheck", "typecheck_body", "generate",
           "generate_body", "done"}

\* C18 as stated: compile_file runs read, lex, parse, type check, generate and
\* write strictly in this order; when a stage fails no later stage runs, the
\* first error is returned, and the output file is neither created nor
\* modified.
C18_AsStated ==
    [][cli.mode = "build" =>
           /\ (InStage(pc) /\ InStage(pc')) =>
                  StageRank(pc') \in {StageRank(pc), StageRank(pc) + 1}
           /\ pc' = "failed" => (InStage(pc) /\ file' = file)
           /\ pc = "failed" => (pc' = "exited" /\ error' = error /\ file' = file)
           /\ file' # file => pc' = "done"]_vars

----------------------------------------------------------------------------
(* C19: exit codes                                                         *)

Printed(lines, format) == \E i \in 1..Len(lines) : lines[i].format = format

\* The invocation failed: no command or no argument, an unknown command or
\* option (main chose no mode), an error returned by the library (a compile or
\* type-check error, an unreadable file), or a `dump` input too short for a
\* header.
InvocationFailed ==
    \/ cli.mode = "none"
    \/ error.some
    \/ (cli.mode = "dump" /\ cli.input.some /\ Len(cli.input.v) < SizeOfAuraBinaryHeader)

\* C19 as stated: every failing invocation exits with code 1 and a message on
\* stderr, every successful one exits with code 0, and `check` prints
\* "Type check passed" only on success.
C19_AsStated ==
    /\ pc = "exited" =>
           /\ InvocationFailed => (cli.exit_code = Some(1) /\ cli.stderr # <<>>)
           /\ ~InvocationFailed => cli.exit_code = Some(0)
    /\ Printed(cli.stdout, "Type check passed") =>
           (cli.mode = "check" /\ pc = "exited" /\ ~error.some)

----------------------------------------------------------------------------
(* C20: the storage of bit-precise integers                                *)

Min(a, b) == IF a <= b THEN a ELSE b

\* C20 as stated: BitInt(b, _).size() is 1, 2, 4, 8, 16 for b <= 8, 16, 32, 64,
\* 128 and ceil(b / 8) for b > 128; align() is min(8, size) for b <= 64 and 16
\* for every b > 64.
C20_AsStated ==
    (layout.measured /\ layout.ty.k = "BitInt") =>
        LET b == layout.ty.bits IN
        /\ layout.size = (IF b <= 8 THEN 1
                          ELSE IF b <= 16 THEN 2
                          ELSE IF b <= 32 THEN 4
                          ELSE IF b <= 64 THEN 8
                          ELSE IF b <= 128 THEN 16
                          ELSE (b + 7) \div 8)
        /\ layout.align = (IF b <= 64 THEN Min(8, layout.size) ELSE 16)

----------------------------------------------------------------------------
(* C21: the value of a return                                              *)

\* The generator as generate_function has it before the last statement of the
\* body of the only function of the program.
BeforeLast(items) ==
    Try(generate_begin(items), LAMBDA b :
        generate_stmts(generate_function_enter(b.cg, items[1]),
                       SubSeq(items[1].body, 1, Len(items[1].body) - 1), 1))

\* text and data are those of r followed by the ret byte.
ThenRet(r) == r.ok /\ cg.text = r.cg.text \o <<195>> /\ cg.data = r.cg.data

\* C21 as stated: for `return e` the code before the ret byte C3 places the
\* value of e in RAX: a local let binding is loaded from its data slot, a data
\* symbol is loaded, and a cast, alloc, free or syscall expression has its code
\* emitted; the expression is never replaced by zeroing RAX.
C21_AsStated ==
    (program \in ReturnPrograms /\ GenerateSucceeded) =>
        /\ ThenRet(Try(BeforeLast(program), LAMBDA g :
               generate_expr(g.cg, program[1].body[Len(program[1].body)].value.v)))
        /\ Slice(cg.text, Len(cg.text) - 4, 3) # <<72, 49, 192>>

----------------------------------------------------------------------------
(* C22: absolute addresses of data locations                               *)

\* C22 as stated: every absolute address of a data location embedded in text is
\* 0x01000000 plus the location's offset in data: the address of a write
\* payload (mov rsi), of a let slot loaded or stored through R10, and of a data
\* symbol loaded into RAX (mov rax, imm64; mov rax, [rax]).
C22_AsStated ==
    GenerateSucceeded =>
        /\ program = LoadsSymbol =>
               cg.text = <<72, 184>> \o Imm64(DataBase + 8) \o <<72, 139, 0>>
        /\ program = ReturnsSymbol =>
               cg.text = <<72, 184>> \o Imm64(DataBase + 8) \o <<72, 139, 0, 195>>
        /\ program = CopiesSlot =>
               cg.text = <<73, 186>> \o Imm64(DataBase + 0) \o <<73, 139, 194>>
                           \o <<73, 186>> \o Imm64(DataBase + 8) \o <<73, 137, 2>>
        /\ program = WritesPayload => cg.text = WriteSequence(1, 8, Len(Hi))

----------------------------------------------------------------------------
(* C23: the three pointer variants                                         *)

\* C23 as stated: unary `*`, Deref, Index and PtrField on an operand of type
\* Ptr<T>, MutPtr<T> or ConstPtr<T> are accepted and yield T (for PtrField the
\* type of the named field of struct T); only a non-pointer operand is
\* rejected.
C23_AsStated ==
    (program \in PointerPrograms /\ TypecheckReturned) =>
        LET pt == program[2].params[1].ty
            use == program[2].body[1].expr
        IN IF is_pointer(pt)
           THEN /\ TypecheckAccepted
                /\ (IF use.e = "PtrField" THEN Ty("I64") ELSE pt.inner) \in tc.inferred
           ELSE Rejected(CASE use.e = "Index" -> "Cannot index non-array/non-pointer type {:?}"
                           [] use.e = "PtrField" -> "Cannot use -> on non-pointer type"
                           [] OTHER -> "Cannot dereference non-pointer type {:?}",
                         CASE use.e = "Index" -> "array index"
                           [] use.e = "PtrField" -> "->{}"
                           [] OTHER -> "deref")

----------------------------------------------------------------------------
(* C24: the slot of a let                                                  *)

\* A step of generate_function that generates a let statement with success.
GeneratesLet ==
    /\ pc = "generate_body"
    /\ stmt <= Len(program[item].body)
    /\ program[item].body[stmt].s = "Let"
    /\ pc' = "generate_body"

IsSuffix(suffix, bytes) ==
    /\ Len(suffix) <= Len(bytes)
    /\ SubSeq(bytes, Len(bytes) - Len(suffix) + 1, Len(bytes)) = suffix

IsPrefix(prefix, bytes) ==
    Len(prefix) <= Len(bytes) /\ SubSeq(bytes, 1, Len(prefix)) = prefix

\* The slot of the let l begins at offset o: the last 8 bytes of data, bound to
\* the name; a literal is stored in it and text is unchanged, any other value
\* leaves zeros and is stored from RAX through R10 by the last bytes of text.
SlotAt(l, o) ==
    /\ Len(cg'.data) = o + 8
    /\ IsPrefix(cg.data, cg'.data)
    /\ cg'.variables = Insert(cg.variables, l.name, o)
    /\ IF IsIntLit(l.value)
       THEN /\ Slice(cg'.data, o, 8) = LeBytes(l.value.lit.val, 8)
            /\ cg'.text = cg.text
       ELSE /\ Slice(cg'.data, o, 8) = Zeros(8)
            /\ IsPrefix(cg.text, cg'.text)
            /\ IsSuffix(<<73, 186>> \o Imm64(DataBase + o) \o <<73, 137, 2>>, cg'.text)

\* C24 as stated: every let statement whose generation succeeds extends data by
\* exactly 8 bytes and binds its name to the offset where they begin; an
\* integer literal is stored there and text is unchanged, any other initializer
\* leaves 8 zero bytes and appends a store of RAX to 0x01000000 + offset
\* through R10 (49 BA imm64, 49 89 02).
C24_AsStated ==
    [][GeneratesLet => SlotAt(program[item].body[stmt], Len(cg.data))]_vars

\* The bytes the code of an expression appends to data: the string-literal
\* payloads of the write syscalls in it.
RECURSIVE PayloadLen(_)
PayloadLen(x) ==
    CASE x.e = "Syscall" ->
           LET arg == x.args[IF Len(x.args) > 1 THEN 2 ELSE 1] IN
           IF arg.e = "Literal" /\ arg.lit.l = "String" THEN Len(arg.lit.bytes) ELSE 0
      [] x.e = "Cast" -> PayloadLen(x.expr)
      [] x.e = "Alloc" -> PayloadLen(x.count)
      [] x.e = "Free" -> PayloadLen(x.ptr) + PayloadLen(x.size)
      [] OTHER -> 0

\* C24: every let statement whose generation succeeds appends 8 bytes to data,
\* after the payloads its initializer's code has appended, and binds its name to
\* the offset where the 8 bytes begin; an integer literal is stored there and
\* text is unchanged, any other initializer leaves 8 zero bytes and makes the
\* text end with a store of RAX to 0x01000000 + offset through R10.
C24_LetSlot ==
    [][GeneratesLet =>
           SlotAt(program[item].body[stmt],
                  Len(cg.data) + PayloadLen(program[item].body[stmt].value))]_vars

\* `let x = 17; let y = write("hi\n")` generated: y is bound behind the payload.
C24_Witness ==
    /\ program = <<MainOf(<<Let("x", None, IntLit(17, "None")),
                            Let("y", None, Syscall("write", <<Str(Hi)>>))>>)>>
    /\ pc = "generate_body"
    /\ stmt = 3
    /\ cg.variables = Insert(Insert(EmptyMap, "x", 0), "y", 11)

----------------------------------------------------------------------------
(* C25: the statements the generator skips                                 *)

SkippedKinds == {"If", "While", "For", "Asm", "Defer", "Break", "Continue"}

\* generate_function is about to generate a statement of a skipped kind.
AtSkipped ==
    /\ pc = "generate_body"
    /\ stmt <= Len(program[item].body)
    /\ program[item].body[stmt].s \in SkippedKinds

\* The body without its statements of a skipped kind.
Kept(st) == st.s \notin SkippedKinds

\* generate on a program of one function, with `body` for its body.
GenerateWith(items, body) ==
    Try(generate_begin(items), LAMBDA b :
    Try(generate_stmts(generate_function_enter(b.cg, items[1]), body, 1), LAMBDA r :
        GOk(generate_function_leave(r.cg, items[1], 0))))

SameAs(r) == r.ok /\ cg' = r.cg

\* C25: generating an If, While, For, Asm, Defer, Break or Continue statement
\* succeeds and leaves text, data, bss_size, symbols, relocations, entry_point
\* and the table of local variables unchanged, whatever is nested in it; and
\* what generate returns for a function with such a statement between others
\* is what it returns for the function without it.
C25_SkippedStatements ==
    [][/\ AtSkipped => (pc' = "generate_body" /\ stmt' = stmt + 1 /\ cg' = cg
                         /\ error' = error)
       /\ (program \in SkippedPrograms /\ pc' = "done") =>
              SameAs(GenerateWith(program, SelectSeq(program[1].body, Kept)))]_vars

\* An if whose branch holds a literal the generator would refuse, skipped.
C25_Witness ==
    /\ program = <<MainOf(<<Let("x", None, IntLit(17, "None")),
                            If(BoolLit(TRUE), <<ExprStmt(IntLit(300, "U8"))>>, None),
                            Return(Some(IntLit(0, "None")))>>)>>
    /\ pc = "done"
    /\ cg.text = <<72, 184>> \o Imm64(0) \o <<195>>
    /\ Len(cg.data) = 8

----------------------------------------------------------------------------
(* C26: relocations                                                        *)

\* The number of places where `bytes` occurs in `text`.
Occurrences(bytes, text) ==
    Cardinality({i \in 0..(Len(text) - Len(bytes)) : Slice(text, i, Len(bytes)) = bytes})

\* C26: the generator never appends a relocation, and the file written for the
\* object has reloc_count 0; the RIP-relative call FF 15 is not in the text of
\* a program that uses alloc, free and calls.
C26_NoRelocations ==
    /\ cg.relocations = <<>>
    /\ pc = "done" => ReadU64(file.v, 64) = 0
    /\ program \in CallPrograms => Occurrences(<<255, 21>>, cg.text) = 0

\* `let x = alloc(u8, 17); free(x, 17)` generated with both register-indirect
\* calls.
C26_Witness ==
    /\ program \in CallPrograms
    /\ pc = "done"
    /\ Occurrences(<<65, 255, 214>>, cg.text) = 1
    /\ Occurrences(<<65, 255, 215>>, cg.text) = 1

----------------------------------------------------------------------------
(* C27: the global scope                                                   *)

\* The name the only statement of main refers to.
UsedName(st) == IF st.s = "Return" THEN st.value.v.name ELSE st.expr.f.name

\* The names bound by the let and const statements of the block expression
\* that initializes the top-level const or var `it`.
BlockBound(it) ==
    IF it.i \in {"Const", "Var"} /\ it.value.e = "Block"
    THEN {it.value.stmts[k].name : k \in {k \in 1..Len(it.value.stmts) :
                                           it.value.stmts[k].s \in {"Let", "Const"}}}
    ELSE {}

BlockBoundBefore(items, i) == UNION {BlockBound(items[k]) : k \in 1..(i - 1)}

\* The scope stack between items and inside a function.
BetweenItems == pc \in {"typecheck", "generate", "generate_body", "done"}

\* C27 as stated: the type checker never inserts a binding into the outermost
\* scope and its scope stack has depth 1 between items; top-level Const, Var
\* and Function items bind no name and the bindings of a function are gone with
\* it, so an identifier in a function body that names a top-level constant,
\* variable or function (also as the callee of a Call) is rejected as an
\* undefined variable.
C27_AsStated ==
    /\ BetweenItems => tc.scopes = <<EmptyMap>>
    /\ pc = "typecheck_body" => (Len(tc.scopes) = 2 /\ tc.scopes[1] = EmptyMap)
    /\ (program \in TopLevelPrograms /\ TypecheckReturned) =>
           Rejected("Undefined variable: {}", "c")
             \/ Rejected("Undefined variable: {}", "main")

\* C27: the scope stack has depth 1 between items, and the only bindings in
\* the outermost scope are those made by let and const statements inside a
\* block expression that initializes a top-level Const or Var; top-level Const,
\* Var and Function items bind no name of their own and the bindings of a
\* function are gone with it, so an identifier in a function body that names a
\* top-level constant, variable or function (also as the callee of a Call) is
\* rejected as an undefined variable unless such a block statement bound that
\* name.
C27_GlobalScope ==
    /\ BetweenItems =>
           /\ Len(tc.scopes) = 1
           /\ DOMAIN tc.scopes[1] \subseteq
                  BlockBoundBefore(program, IF pc = "typecheck" THEN item ELSE Len(program) + 1)
    /\ pc = "typecheck_body" =>
           /\ Len(tc.scopes) = 2
           /\ DOMAIN tc.scopes[1] \subseteq BlockBoundBefore(program, item)
    /\ (program \in TopLevelPrograms /\ TypecheckReturned) =>
           LET name == UsedName(program[Len(program)].body[1]) IN
           IF name \in BlockBoundBefore(program, Len(program))
           THEN pc = "failed" => Rejected("Cannot call non-function type {:?}", "function call")
           ELSE Rejected("Undefined variable: {}", name)

\* `const N = { let c = 1; c }; entry fn main() { return c; }` is compiled: the
\* let of the block is in the outermost scope.
C27_Witness ==
    /\ program = <<ConstDecl("N", None,
                             BlockExpr(<<Let("c", None, IntLit(1, "None"))>>, Some(Ident("c")))),
                   MainOf(<<Return(Some(Ident("c")))>>)>>
    /\ pc = "done"
    /\ DOMAIN tc.scopes[1] = {"c"}

----------------------------------------------------------------------------
(* C28: the size of a function symbol                                      *)

\* generate_function is about to fill in the size of its symbol.
LeavesFunction == pc = "generate_body" /\ stmt > Len(program[item].body)

\* The symbol generate_function pushed for the function being generated: the
\* last Function symbol of the table.
OwnSymbol(symbols) ==
    CHOOSE i \in 1..Len(symbols) :
        /\ symbols[i].kind = "Function"
        /\ \A j \in (i + 1)..Len(symbols) : symbols[j].kind # "Function"

\* C28 as stated: when a function has been emitted, its Function symbol has
\* the number of text bytes of its body as size and no Data symbol's size has
\* changed, also when an earlier symbol (a constant or another function) has
\* the name of the function.
C28_AsStated ==
    [][LeavesFunction =>
          /\ cg'.symbols[OwnSymbol(cg.symbols)].size = Len(cg.text) - locals.func_start
          /\ \A i \in 1..Len(cg.symbols) :
                 cg.symbols[i].kind = "Data" => cg'.symbols[i].size = cg.symbols[i].size]_vars

----------------------------------------------------------------------------
(* C29: a let that copies a name                                           *)

\* C29 as stated: a program the type checker accepts, in which the initializer
\* of a let is a bare identifier bound by a parameter, a local const or an
\* earlier let, is accepted by the generator: generate does not return the
\* CodegenError "Undefined variable: {}".
C29_AsStated ==
    (program \in CopyPrograms /\ TypecheckAccepted) =>
        ~(pc = "failed" /\ error.v.kind = "CodegenError"
                        /\ error.v.message = "Undefined variable: {}")

----------------------------------------------------------------------------
(* C30: the default output path                                            *)

\* C30 as stated: a `build` without -o writes to a path that is not the path
\* of the source, so that a build that succeeds has not overwritten its source,
\* also when the source has the extension `.aura`.
C30_AsStated ==
    (pc = "done" /\ cli.mode = "build" /\ ~cli.output.some) =>
        cli.path.v # Path(cli.source.v)

====
